---- MODULE Spec2Model ----
(***************************************************************************)
(* HAWebSocketClient (src/src/home_assistant_sdk/home_assistant_client.py) *)
(* as a state machine.  One asyncio task is one thread of the model; a     *)
(* thread's pc names the await it is suspended in, and one action runs a   *)
(* task from one await to the next, as the asyncio event loop does.        *)
(***************************************************************************)
EXTENDS Integers, Sequences, FiniteSets, TLC

\* ---------------------------------------------------------------- bounds
MaxId == 4          \* ids a connection may allocate before senders stall
MaxWs == 2          \* transports websockets.connect may open in one run
MaxClose == 2       \* calls of close()
MaxDrop == 1        \* transport losses caused by the network or the server

\* ------------------------------------------------------------- constants
NoWs == 0                       \* self._ws is None
NoThread == <<"none", 0>>       \* no task / no future
Main == <<"main", 0>>           \* the task that calls connect()
Closer == <<"closer", 0>>       \* the task that calls close()
Users == {<<"u", 1>>, <<"u", 2>>}                 \* tasks calling the API
Readers == {<<"r", g>> : g \in 1..MaxWs}          \* ha_ws_reader tasks
Pingers == {<<"p", g>> : g \in 1..MaxWs}          \* ha_ws_pinger tasks
Threads == {Main, Closer} \cup Users \cup Readers \cup Pingers
Ids == 1..MaxId
Descs == {1, 2}     \* a subscribe call k passes callback k and arguments k
WsIds == 1..MaxWs

\* inbound frames the receive loop can read
ResultFrames == [type : {"result"}, id : Ids, success : BOOLEAN]
OkFrames == [type : {"result"}, id : Ids, success : {TRUE}]
PongFrames == [type : {"pong"}, id : Ids, success : {FALSE}]
EventFrames == [type : {"event"}, id : Ids, success : {FALSE}]
OtherFrames == [type : {"other"}, id : {0}, success : {FALSE}]
\* inbound text that is none of the above: not JSON, a JSON value that is not
\* an object, an array of such values, an object of a handshake type or of a
\* type the client does not know (these may carry any id)
JunkFrames ==
  [type : {"badjson", "scalar", "list_scalars"}, id : {0}, success : {FALSE}]
  \cup [type : {"auth_required", "auth_ok", "auth_invalid", "unknown"},
        id : Ids \cup {0}, success : {FALSE}]
Frames == ResultFrames \cup PongFrames \cup EventFrames \cup OtherFrames

VARIABLES
  ws,             \* self._ws: NoWs or the transport it refers to
  nws,            \* transports opened so far
  openWs,         \* transports whose state is OPEN
  autoReconnect,  \* self._auto_reconnect
  closeEvent,     \* self._close_event.is_set()
  enableCoalesce, \* self._enable_coalesce
  onReconnect,    \* self._on_reconnect is set
  reconnectMaxDelay, \* self._reconnect_max_delay, in ticks of 1/16 s
  nextId,         \* self._next_id
  wire,           \* observer, kept when wire.on:
                  \* hs: the handshake messages read and frames written since the
                  \*   last websockets.connect, as <<kind, id>>; last: the id
                  \*   _send took last since then; used: all ids _send ever took;
                  \*   ret: the task whose correlated call ended last and how;
                  \*   run: subscription ids of the callbacks called and not yet
                  \*   returned; cb: how the last callback ended; seen: type and
                  \*   id of the last inbound text that was no result, pong or event;
                  \*   got: type and id of the last result or pong frame that found
                  \*   no pending future; hook: calls of the on_reconnect hook
                  \*   since the last websockets.connect
  pending,        \* self._pending: id -> owner of the future (NoThread: absent)
  subscriptions,  \* self._subscriptions: insertion-ordered <<id, callback>>
  cache,          \* self._resubscribe_cache: list of replay descriptors
  readerTask,     \* self._reader_task
  pingerTask,     \* self._pinger_task
  pc,             \* per task: the await it is suspended in
  fc,             \* per task in _do_connect: first_connect
  delay,          \* per task in _do_connect: delay, in ticks of 1/16 s (0 before the
                  \*   task has entered _do_connect)
  rid,            \* per task: req_id of its correlated call
  tw,             \* per task: transport its recv / send is suspended on
  op,             \* per task: the correlated call in progress
  arg,            \* per task: callback/descriptor or subscription id; for a
                  \*   receive loop inside a callback: the id of the event being
                  \*   handled and of the array item still to dispatch (0: none)
  fut,            \* per task: state of the future it awaits
  futId,          \* per task: id of the frame that settled its future
  settles,        \* per task: set_result/set_exception/cancel applied
  cancelReq,      \* per task: Task.cancel() requested, not yet delivered
  rcbs,           \* _restore_subscriptions: callbacks cb_iter still holds
  rold,           \* _restore_subscriptions: callbacks of old_callbacks, in order
  ridx,           \* _restore_subscriptions: position in the replay log
  rnew,           \* _restore_subscriptions: new_cache
  rfail,          \* _restore_subscriptions: some resubscribe raised
  riter,          \* _restore_subscriptions: the list object being iterated,
                  \*   once self._resubscribe_cache was rebound to another
  rali,           \* _restore_subscriptions: the iterated list is still
                  \*   the object self._resubscribe_cache refers to
  srvSubs,        \* server side: transport -> id -> descriptor subscribed
  substate,       \* per descriptor: "new", "active" or "unsub"
  delivered,      \* last event dispatched: <<callback called (0: none), descriptor
                  \*   the server sent the event for>>
  err,            \* per task in _do_connect: the exception last caught
  hdRuns,         \* times the rejecting loop of _handle_disconnect ran
  closeSnap,      \* session fields as the last completed close() left them
  closeCalls,     \* close() calls started
  closeDone,      \* close() calls returned
  drops           \* transport losses so far

wsVars == <<ws, nws, openWs>>
cfgVars == <<autoReconnect, closeEvent, enableCoalesce, onReconnect, reconnectMaxDelay>>
tableVars == <<pending, fut, futId, settles>>
subVars == <<subscriptions, cache, srvSubs, substate, delivered>>
loopVars == <<readerTask, pingerTask>>
callLoc == <<rid, op, arg>>
restoreLoc == <<rcbs, rold, ridx, rnew, rfail, riter, rali>>
histVars == <<closeCalls, closeDone, closeSnap, drops>>
vars == <<wsVars, cfgVars, tableVars, subVars, loopVars, callLoc, restoreLoc,
          histVars, nextId, wire, pc, fc, delay, hdRuns, err, tw, cancelReq>>

\* ------------------------------------------------------- dict helpers
DictHas(d, k) == \E i \in 1..Len(d) : d[i][1] = k
DictGet(d, k) == IF DictHas(d, k)
                 THEN d[CHOOSE i \in 1..Len(d) : d[i][1] = k][2]
                 ELSE 0
DictSet(d, k, v) == IF DictHas(d, k)
                    THEN [i \in 1..Len(d) |-> IF d[i][1] = k THEN <<k, v>> ELSE d[i]]
                    ELSE Append(d, <<k, v>>)
DictPop(d, k) == SelectSeq(d, LAMBDA e : e[1] # k)
DictValues(d) == [i \in 1..Len(d) |-> d[i][2]]

\* _send took the ids lo..hi from the counter
Allocated(w0, lo, hi) ==
  IF w0.on THEN [w0 EXCEPT !.last = IF hi >= lo THEN hi ELSE @, !.used = @ \cup (lo..hi)]
           ELSE w0

\* websockets.connect returned a fresh transport
Opened(w0) == IF w0.on THEN [w0 EXCEPT !.hs = <<>>, !.last = 0, !.hook = 0] ELSE w0

\* self._on_reconnect() was called
Hooked(w0) == IF w0.on THEN [w0 EXCEPT !.hook = @ + 1] ELSE w0

\* the handshake read message m / wrote frame f
Heard(w0, m) == IF w0.on THEN [w0 EXCEPT !.hs = Append(@, <<m, 0>>)] ELSE w0

Sent(w0, f) == IF w0.on THEN [w0 EXCEPT !.hs = Append(@, f)] ELSE w0

\* the callback stored under subscription id i was called / ended as x
Started(w0, i) == IF w0.on THEN [w0 EXCEPT !.run = Append(@, i)] ELSE w0

Finished(w0, x) == IF w0.on THEN [w0 EXCEPT !.run = IF @ = <<>> THEN @ ELSE Tail(@), !.cb = x]
                   ELSE w0

\* the receive loop read the result or pong frame f, which found no pending
\* future under its id
Got(w0, f) == IF w0.on THEN [w0 EXCEPT !.got = <<f.type, f.id>>] ELSE w0

\* the receive loop read the text m
Seen(w0, m) == IF w0.on THEN [w0 EXCEPT !.seen = <<m.type, m.id>>] ELSE w0

\* the correlated call of task t returned (k = "value") or raised k
Returned(w0, t, k) == IF w0.on THEN [w0 EXCEPT !.ret = <<t, k>>] ELSE w0

\* HAWebSocketClient.connected
Connected(w, open) == w # NoWs /\ w \in open

Done(t) == pc[t] \in {"done", "raised"}

EmptyPending == [i \in Ids |-> NoThread]
NoRet == <<NoThread, "none">>
NoArg == <<0, 0>>

\* a recv() is already suspended on transport w: a second recv() raises
RecvBusy(w, self) == \E t \in Threads \ {self} :
                        pc[t] \in {"rd_recv", "dc_hs1", "dc_hs2"} /\ tw[t] = w

Unborn(g) == pc[<<"r", g>>] = "unborn" /\ pc[<<"p", g>>] = "unborn"
NextGen == CHOOSE g \in 1..MaxWs : Unborn(g) /\ \A h \in 1..MaxWs : Unborn(h) => g <= h

\* ------------------------------------------------------------ backoff
\* delays are counted in ticks of 1/16 s, so that 1.0 * 1.5 * 1.5 is exact
Tick == 16

\* delay = 1.0, in ticks
InitialDelay == 16

\* backoff = 1.5
Backoff(d) == (d * 3) \div 2

Min(a, b) == IF a <= b THEN a ELSE b

\* delay = min(delay * backoff, self._reconnect_max_delay)
NextDelay(d, m) == Min(Backoff(d), m)

\* reconnect_max_delay of 0.5 s, 1 s, 1.5 s and 2.5 s
ReconnectMaxDelays == {8, 16, 24, 40}

\* -------------------------------------------------------------- Init
Init ==
  /\ ws = NoWs /\ nws = 0 /\ openWs = {}
  /\ autoReconnect \in BOOLEAN /\ closeEvent = FALSE /\ enableCoalesce \in BOOLEAN
  /\ onReconnect \in BOOLEAN
  /\ reconnectMaxDelay \in ReconnectMaxDelays
  /\ nextId = 1
  /\ wire \in {[on |-> b, hs |-> <<>>, last |-> 0, used |-> {}, ret |-> NoRet,
               run |-> <<>>, cb |-> "none", seen |-> <<"none", 0>>,
               got |-> <<"none", 0>>, hook |-> 0] : b \in BOOLEAN}
  /\ pending = EmptyPending
  /\ subscriptions = <<>> /\ cache = <<>>
  /\ readerTask = NoThread /\ pingerTask = NoThread
  /\ pc = [t \in Threads |-> IF t = Main THEN "init"
                             ELSE IF t \in Users \cup {Closer} THEN "idle"
                             ELSE "unborn"]
  /\ fc = [t \in Threads |-> FALSE]
  /\ delay = [t \in Threads |-> 0]
  /\ rid = [t \in Threads |-> 0]
  /\ tw = [t \in Threads |-> NoWs]
  /\ op = [t \in Threads |-> "none"]
  /\ arg = [t \in Threads |-> NoArg]
  /\ fut = [t \in Threads |-> "none"]
  /\ futId = [t \in Threads |-> 0]
  /\ settles = [t \in Threads |-> 0]
  /\ cancelReq = [t \in Threads |-> FALSE]
  /\ rcbs = [t \in Threads |-> <<>>]
  /\ rold = [t \in Threads |-> <<>>]
  /\ ridx = [t \in Threads |-> 0]
  /\ rnew = [t \in Threads |-> <<>>]
  /\ rfail = [t \in Threads |-> FALSE]
  /\ riter = [t \in Threads |-> <<>>]
  /\ rali = [t \in Threads |-> FALSE]
  /\ srvSubs = [w \in WsIds |-> [i \in Ids |-> 0]]
  /\ substate = [k \in Descs |-> "new"]
  /\ delivered = NoArg
  /\ err = [t \in Threads |-> "none"]
  /\ hdRuns = 0
  /\ closeSnap = <<>>
  /\ closeCalls = 0 /\ closeDone = 0 /\ drops = 0

\* ----------------------------------------------- _restore_subscriptions
\* The for loop of _restore_subscriptions from position idx up to its next
\* await: an entry without a callback is skipped, a subscribe that finds the
\* session not connected raises inside _send_raw after _send took an id.
RECURSIVE RestoreScan(_, _, _, _, _, _)
RestoreScan(idx, cbs, nid, len, conn, fail) ==
  IF idx > len THEN [idx |-> idx, cbs |-> cbs, nid |-> nid, susp |-> FALSE, fail |-> fail]
  ELSE IF cbs = <<>> THEN RestoreScan(idx + 1, cbs, nid, len, conn, fail)
  ELSE IF conn THEN [idx |-> idx, cbs |-> cbs, nid |-> nid, susp |-> TRUE, fail |-> fail]
  ELSE RestoreScan(idx + 1, Tail(cbs), nid + 1, len, conn, TRUE)

\* _restore_subscriptions continued by task t until it suspends in the send
\* of the next subscribe or assigns new_cache and returns.
RestoreCont(t, idx0, cbs0, old0, nid0, wire0, cache0, subs0, rnew0, fail0, pc0, riter0, rali0) ==
  LET iter0 == IF rali0[t] THEN cache0 ELSE riter0[t]
      s == RestoreScan(idx0, cbs0, nid0, Len(iter0), Connected(ws, openWs), fail0)
  IN IF s.susp
     THEN /\ s.nid <= MaxId
          /\ nextId' = s.nid + 1
          /\ wire' = Allocated(wire0, nid0, s.nid)
          /\ rid' = [rid EXCEPT ![t] = s.nid]
          /\ op' = [op EXCEPT ![t] = "restore"]
          /\ arg' = [arg EXCEPT ![t] = <<Head(s.cbs), iter0[s.idx]>>]
          /\ tw' = [tw EXCEPT ![t] = ws]
          /\ rcbs' = [rcbs EXCEPT ![t] = Tail(s.cbs)]
          /\ rold' = [rold EXCEPT ![t] = old0]
          /\ ridx' = [ridx EXCEPT ![t] = s.idx]
          /\ rnew' = [rnew EXCEPT ![t] = rnew0]
          /\ rfail' = [rfail EXCEPT ![t] = s.fail]
          /\ riter' = riter0 /\ rali' = rali0
          /\ srvSubs' = [srvSubs EXCEPT ![ws][s.nid] = iter0[s.idx]]
          /\ cache' = cache0 /\ subscriptions' = subs0
          /\ pc' = [pc0 EXCEPT ![t] = "send"]
     ELSE /\ nextId' = s.nid
          /\ wire' = Allocated(wire0, nid0, s.nid - 1)
          /\ rid' = [rid EXCEPT ![t] = 0]
          /\ op' = [op EXCEPT ![t] = "none"]
          /\ arg' = [arg EXCEPT ![t] = NoArg]
          /\ tw' = [tw EXCEPT ![t] = NoWs]
          /\ rcbs' = [rcbs EXCEPT ![t] = <<>>]
          /\ rold' = [rold EXCEPT ![t] = <<>>]
          /\ ridx' = [ridx EXCEPT ![t] = 0]
          /\ rnew' = [rnew EXCEPT ![t] = <<>>]
          /\ rfail' = [rfail EXCEPT ![t] = s.fail]
          /\ riter' = [u \in Threads |-> IF u # t /\ rali0[u] THEN cache0
                                         ELSE IF u = t THEN <<>> ELSE riter0[u]]
          /\ rali' = [u \in Threads |-> FALSE]
          /\ srvSubs' = srvSubs
          /\ cache' = rnew0 /\ subscriptions' = subs0
          /\ pc' = [pc0 EXCEPT ![t] = "done"]

restoreGroup == <<nextId, rid, op, arg, tw, rcbs, rold, ridx, rnew, rfail, riter, rali,
                  srvSubs, cache, subscriptions>>

\* ------------------------------------------------------- _do_connect
\* except Exception in _do_connect re-raising whatever auto_reconnect says
DcExceptRaise(t, pc0, e) ==
  /\ pc' = [pc0 EXCEPT ![t] = "raised"]
  /\ err' = [err EXCEPT ![t] = e]

\* except Exception in _do_connect: raise unless auto-reconnect, else sleep
DcExcept(t, pc0, e) ==
  /\ pc' = [pc0 EXCEPT ![t] = IF autoReconnect THEN "dc_sleep" ELSE "raised"]
  /\ err' = [err EXCEPT ![t] = e]

\* asyncio.create_task for the receive loop only
SpawnReaderOnly(pc0, g) == [pc0 EXCEPT ![<<"r", g>>] = "rd_start"]

\* asyncio.create_task(self._reader_loop()), create_task(self._pinger_loop())
SpawnLoops(pc0, g) == [pc0 EXCEPT ![<<"r", g>>] = "rd_start", ![<<"p", g>>] = "pg_start"]

\* the hook is awaited whenever one is set
HookOnEveryConnect(first) == onReconnect

\* `if not first_connect and self._on_reconnect`
HookWanted(first) == ~first /\ onReconnect

\* _do_connect after _maybe_enable_features: spawn both loops, then return
\* (first connect), or await the hook if one is set and restore the
\* subscriptions (reconnect)
DcReady(t, nid, wire0) ==
  /\ \E g \in 1..MaxWs : Unborn(g)
  /\ LET g == NextGen
         pc0 == SpawnLoops(pc, g)
     IN /\ closeEvent' = FALSE
        /\ err' = [err EXCEPT ![t] = "none"]
        /\ readerTask' = <<"r", g>>
        /\ pingerTask' = <<"p", g>>
        /\ IF HookWanted(fc[t])
           THEN /\ pc' = [pc0 EXCEPT ![t] = "dc_hook"]
                /\ nextId' = nid
                /\ wire' = Hooked(wire0)
                /\ tw' = [tw EXCEPT ![t] = NoWs]
                /\ UNCHANGED <<rid, op, arg, rcbs, rold, ridx, rnew, rfail, riter, rali,
                               srvSubs, cache, subscriptions>>
           ELSE IF fc[t] \/ cache = <<>>
           THEN /\ pc' = [pc0 EXCEPT ![t] = "done"]
                /\ nextId' = nid
                /\ wire' = wire0
                /\ tw' = [tw EXCEPT ![t] = NoWs]
                /\ UNCHANGED <<rid, op, arg, rcbs, rold, ridx, rnew, rfail, riter, rali,
                               srvSubs, cache, subscriptions>>
           ELSE RestoreCont(t, 1, DictValues(subscriptions), DictValues(subscriptions), nid, wire0,
                            cache, <<>>, <<>>,
                            FALSE, pc0, riter, [rali EXCEPT ![t] = TRUE])

\* await self._on_reconnect() returned or raised: the subscriptions are
\* restored, or the except branch of _do_connect runs
HookDone(t, x) ==
  /\ pc[t] = "dc_hook" /\ ~cancelReq[t]
  /\ x \in {"returned", "raised"}
  /\ IF x = "raised"
     THEN /\ DcExcept(t, pc, "hook")
          /\ UNCHANGED <<restoreGroup, wire>>
     ELSE /\ UNCHANGED err
          /\ IF fc[t] \/ cache = <<>>
             THEN /\ pc' = [pc EXCEPT ![t] = "done"]
                  /\ UNCHANGED <<restoreGroup, wire>>
             ELSE RestoreCont(t, 1, DictValues(subscriptions), DictValues(subscriptions),
                              nextId, wire, cache, <<>>, <<>>,
                              FALSE, pc, riter, [rali EXCEPT ![t] = TRUE])
  /\ UNCHANGED <<wsVars, cfgVars, tableVars, substate, delivered, loopVars,
                 histVars, fc, delay, hdRuns, cancelReq>>

\* connect(): await self._do_connect(first_connect=True)
Connect ==
  /\ pc[Main] = "init"
  /\ pc' = [pc EXCEPT ![Main] = "dc_connect"]
  /\ fc' = [fc EXCEPT ![Main] = TRUE]
  /\ delay' = [delay EXCEPT ![Main] = InitialDelay]
  /\ UNCHANGED hdRuns
  /\ UNCHANGED <<wsVars, cfgVars, tableVars, subVars, loopVars, callLoc, restoreLoc,
                 histVars, nextId, wire, tw, cancelReq, err>>

\* self._ws = await websockets.connect(...) succeeds; _handshake_and_auth
\* suspends in its first _recv_json
DcOpen(t) ==
  /\ pc[t] = "dc_connect" /\ ~cancelReq[t]
  /\ nws < MaxWs
  /\ nws' = nws + 1 /\ ws' = nws + 1 /\ openWs' = openWs \cup {nws + 1}
  /\ tw' = [tw EXCEPT ![t] = nws + 1]
  /\ pc' = [pc EXCEPT ![t] = "dc_hs1"]
  /\ wire' = Opened(wire)
  /\ UNCHANGED <<cfgVars, tableVars, subVars, loopVars, callLoc, restoreLoc,
                 histVars, nextId, fc, delay, hdRuns, cancelReq, err>>

\* websockets.connect raises
DcOpenFail(t) ==
  /\ pc[t] = "dc_connect" /\ ~cancelReq[t]
  /\ DcExcept(t, pc, "transport")
  /\ UNCHANGED <<wsVars, cfgVars, tableVars, subVars, loopVars, callLoc, restoreLoc,
                 histVars, nextId, wire, fc, delay, hdRuns, tw, cancelReq>>

\* await asyncio.sleep(delay) returns; the loop connects again
DcSleepDone(t) ==
  /\ pc[t] = "dc_sleep" /\ ~cancelReq[t]
  /\ pc' = [pc EXCEPT ![t] = "dc_connect"]
  /\ delay' = [delay EXCEPT ![t] = NextDelay(delay[t], reconnectMaxDelay)]
  /\ UNCHANGED <<wsVars, cfgVars, tableVars, subVars, loopVars, callLoc, restoreLoc,
                 histVars, nextId, wire, fc, hdRuns, tw, cancelReq, err>>

\* the recv of the handshake raises: its transport is closed
DcRecvFail(t) ==
  /\ pc[t] \in {"dc_hs1", "dc_hs2"} /\ ~cancelReq[t]
  /\ tw[t] \notin openWs
  /\ DcExcept(t, pc, "transport")
  /\ UNCHANGED <<wsVars, cfgVars, tableVars, subVars, loopVars, callLoc, restoreLoc,
                 histVars, nextId, wire, fc, delay, hdRuns, tw, cancelReq>>

\* {"type": "auth", "access_token": ...} written with with_id=False
AuthFrame == <<"auth", 0>>

\* the test on the first message of the handshake: a dict of another type
\* raises, anything else (auth_required, or a value that is not a dict) passes
HandshakeAccepts(m) == m # "other"

\* first message of the handshake read; if it passes, the auth frame is sent
DcHs1(t, m) ==
  /\ pc[t] = "dc_hs1" /\ ~cancelReq[t]
  /\ tw[t] \in openWs
  /\ LET read == Heard(wire, m)
     IN IF ~HandshakeAccepts(m)
        THEN /\ DcExcept(t, pc, "handshake") /\ UNCHANGED tw
             /\ wire' = read
        ELSE IF ~Connected(ws, openWs)
        THEN /\ DcExcept(t, pc, "transport") /\ UNCHANGED tw
             /\ wire' = read
        ELSE /\ pc' = [pc EXCEPT ![t] = "dc_auth"]
             /\ tw' = [tw EXCEPT ![t] = ws]
             /\ wire' = Sent(read, AuthFrame)
             /\ UNCHANGED err
  /\ UNCHANGED <<wsVars, cfgVars, tableVars, subVars, loopVars, callLoc, restoreLoc,
                 histVars, nextId, fc, delay, hdRuns, cancelReq>>

\* the send of the auth frame returns; _recv_json waits for the answer
DcAuthSent(t) ==
  /\ pc[t] = "dc_auth" /\ ~cancelReq[t]
  /\ IF tw[t] \notin openWs \/ ws = NoWs \/ RecvBusy(ws, t)
     THEN /\ DcExcept(t, pc, "transport") /\ UNCHANGED tw
     ELSE /\ pc' = [pc EXCEPT ![t] = "dc_hs2"]
          /\ tw' = [tw EXCEPT ![t] = ws]
          /\ UNCHANGED err
  /\ UNCHANGED <<wsVars, cfgVars, tableVars, subVars, loopVars, callLoc, restoreLoc,
                 histVars, nextId, wire, fc, delay, hdRuns, cancelReq>>

\* answer to the auth frame; auth_ok runs _maybe_enable_features
DcHs2(t, m) ==
  /\ pc[t] = "dc_hs2" /\ ~cancelReq[t]
  /\ tw[t] \in openWs
  /\ LET read == Heard(wire, m)
     IN
     IF m # "auth_ok"
     THEN /\ DcExcept(t, pc, IF m = "auth_invalid" THEN "auth_invalid" ELSE "handshake")
          /\ wire' = read
          /\ UNCHANGED <<closeEvent, loopVars, restoreGroup>>
     ELSE IF ~enableCoalesce
     THEN DcReady(t, nextId, read)
     ELSE IF ~Connected(ws, openWs)
     THEN /\ DcExcept(t, pc, "transport") /\ nextId' = 1
          /\ wire' = read
          /\ UNCHANGED <<closeEvent, loopVars, rid, op, arg, tw, rcbs, rold, ridx, rnew,
                         rfail, riter, rali, srvSubs, cache, subscriptions>>
     ELSE /\ pc' = [pc EXCEPT ![t] = "dc_feat"]
          /\ nextId' = 1
          /\ wire' = Sent(read, <<"feat", 1>>)
          /\ tw' = [tw EXCEPT ![t] = ws]
          /\ UNCHANGED <<closeEvent, loopVars, rid, op, arg, rcbs, rold, ridx, rnew,
                         rfail, riter, rali, srvSubs, cache, subscriptions, err>>
  /\ UNCHANGED <<wsVars, autoReconnect, enableCoalesce, onReconnect, reconnectMaxDelay, tableVars, substate,
                 delivered, histVars, fc, delay, hdRuns, cancelReq>>

\* the send of supported_features returns: self._next_id = 2, loops spawned
DcFeat(t) ==
  /\ pc[t] = "dc_feat" /\ ~cancelReq[t]
  /\ IF tw[t] \notin openWs
     THEN /\ DcExcept(t, pc, "transport")
          /\ UNCHANGED <<closeEvent, loopVars, restoreGroup, wire>>
     ELSE DcReady(t, 2, wire)
  /\ UNCHANGED <<wsVars, autoReconnect, enableCoalesce, onReconnect, reconnectMaxDelay, tableVars, substate,
                 delivered, histVars, fc, delay, hdRuns, cancelReq>>

\* ------------------------------------------------- _handle_disconnect
\* for fut in list(self._pending.values()): fut.set_exception(...) with no
\* fut.done() test
FailPendingLostUnguarded(fut0, set0, pend0) ==
  [fut |-> [t \in Threads |-> IF \E i \in Ids : pend0[i] = t
                              THEN "closed" ELSE fut0[t]],
   settles |-> [t \in Threads |-> IF \E i \in Ids : pend0[i] = t
                                  THEN set0[t] + 1 ELSE set0[t]]]

\* the loop of _handle_disconnect that rejects the pending futures
FailPendingLost(fut0, set0, pend0) ==
  [fut |-> [t \in Threads |-> IF (\E i \in Ids : pend0[i] = t) /\ fut0[t] = "pending"
                              THEN "closed" ELSE fut0[t]],
   settles |-> [t \in Threads |-> IF (\E i \in Ids : pend0[i] = t) /\ fut0[t] = "pending"
                                  THEN set0[t] + 1 ELSE set0[t]]]

\* `if self._auto_reconnect and not self._close_event.is_set()`
WillReconnect(ar, ce) == ar /\ ~ce

\* _handle_disconnect after its await self._ws.close()
HdRest(t, pend0, fut0, set0, pc0) ==
  LET r == FailPendingLost(fut0, set0, pend0)
  IN /\ ws' = NoWs
     /\ fut' = r.fut /\ settles' = r.settles
     /\ pending' = EmptyPending
     /\ hdRuns' = hdRuns + 1
     /\ IF WillReconnect(autoReconnect, closeEvent)
        THEN /\ pc' = [pc0 EXCEPT ![t] = "dc_connect"]
             /\ fc' = [fc EXCEPT ![t] = FALSE]
             /\ delay' = [delay EXCEPT ![t] = InitialDelay]
        ELSE /\ pc' = [pc0 EXCEPT ![t] = "done"]
             /\ fc' = fc /\ delay' = delay

\* _handle_disconnect from its first line: closing the transport suspends
EnterHd(t, pend0, fut0, set0, pc0) ==
  IF ws # NoWs
  THEN /\ openWs' = openWs \ {ws}
       /\ pc' = [pc0 EXCEPT ![t] = "hd_close"]
       /\ ws' = ws /\ pending' = pend0 /\ fut' = fut0 /\ settles' = set0 /\ fc' = fc /\ delay' = delay
       /\ hdRuns' = hdRuns
  ELSE /\ HdRest(t, pend0, fut0, set0, pc0)
       /\ openWs' = openWs

hdGroup == <<ws, openWs, pending, fut, settles, pc, fc, delay, hdRuns>>

\* await self._ws.close() returned in _handle_disconnect
HdResume(t) ==
  /\ pc[t] = "hd_close" /\ ~cancelReq[t]
  /\ HdRest(t, pending, fut, settles, pc)
  /\ UNCHANGED <<nws, openWs, cfgVars, futId, subVars, loopVars, callLoc, restoreLoc,
                 histVars, nextId, wire, tw, cancelReq, err>>

\* -------------------------------------------------------- _reader_loop
\* top of the while loop of _reader_loop up to the await in _recv_json
ReaderLoopTop(t, pend0, fut0, set0) ==
  IF closeEvent \/ ws = NoWs \/ RecvBusy(ws, t)
  THEN /\ EnterHd(t, pend0, fut0, set0, pc)
       /\ tw' = [tw EXCEPT ![t] = NoWs]
  ELSE /\ pc' = [pc EXCEPT ![t] = "rd_recv"]
       /\ tw' = [tw EXCEPT ![t] = ws]
       /\ pending' = pend0 /\ fut' = fut0 /\ settles' = set0
       /\ UNCHANGED <<ws, openWs, fc, delay, hdRuns>>

\* the reader task runs for the first time
ReaderStart(t) ==
  /\ t \in Readers /\ pc[t] = "rd_start" /\ ~cancelReq[t]
  /\ ReaderLoopTop(t, pending, fut, settles)
  /\ UNCHANGED <<nws, cfgVars, futId, subVars, loopVars, callLoc, restoreLoc,
                 histVars, nextId, wire, cancelReq, err>>

\* no fut.done() test before fut.set_result
FutureAnyState(x) == TRUE

\* `not fut.done()`: the future stored in the table is still pending
FutureNotDone(x) == x = "pending"

\* fut.set_result(msg) of _dispatch_message on whichever future is pending
DispatchAnyPending(f, o) ==
  /\ f.type \in {"result", "pong"}
  /\ fut[o] = "pending" /\ \E i \in Ids : pending[i] = o

\* _dispatch_message settles the future of task o with frame f: the future
\* registered under the id of the frame, if it is not done
DispatchSettles(f, o) ==
  /\ f.type \in {"result", "pong"}
  /\ pending[f.id] = o /\ o # NoThread /\ FutureNotDone(fut[o])

FrameOutcome(f) == IF f.type = "pong" THEN "pong"
                   ELSE IF f.success THEN "ok" ELSE "err"

\* the event branch of _dispatch_message: the callback stored under the id
\* of the frame is called with the event; 0 when none is stored and the
\* event is dropped
EventDelivery(f, w, d0) ==
  IF f.type = "event"
  THEN <<DictGet(subscriptions, f.id), srvSubs[w][f.id]>>
  ELSE d0

\* recv returned frame f: _dispatch_message, then the loop reads again
ReaderRecv(t, f) ==
  /\ t \in Readers /\ pc[t] = "rd_recv" /\ ~cancelReq[t]
  /\ tw[t] \in openWs
  /\ f.type = "event" => srvSubs[tw[t]][f.id] # 0
  /\ LET hit == {o \in Threads : DispatchSettles(f, o)}
         fut1 == [o \in Threads |-> IF o \in hit THEN FrameOutcome(f) ELSE fut[o]]
         set1 == [o \in Threads |-> IF o \in hit THEN settles[o] + 1 ELSE settles[o]]
     IN /\ futId' = [o \in Threads |-> IF o \in hit THEN f.id ELSE futId[o]]
        /\ ReaderLoopTop(t, pending, fut1, set1)
  /\ delivered' = EventDelivery(f, tw[t], delivered)
  /\ UNCHANGED <<nws, cfgVars, subscriptions, cache, srvSubs, substate, loopVars,
                 callLoc, restoreLoc, histVars, nextId, wire, cancelReq, err>>

\* recv returned a result or pong frame f under whose id no future is
\* stored, or a future that is done: _dispatch_message, then the loop reads
\* again
ReaderRecvLate(t, f) ==
  /\ t \in Readers /\ pc[t] = "rd_recv" /\ ~cancelReq[t]
  /\ tw[t] \in openWs
  /\ f.type \in {"result", "pong"}
  /\ IF pending[f.id] = NoThread THEN TRUE ELSE fut[pending[f.id]] # "pending"
  /\ LET hit == {o \in Threads : DispatchSettles(f, o)}
         fut1 == [o \in Threads |-> IF o \in hit THEN FrameOutcome(f) ELSE fut[o]]
         set1 == [o \in Threads |-> IF o \in hit THEN settles[o] + 1 ELSE settles[o]]
     IN /\ futId' = [o \in Threads |-> IF o \in hit THEN f.id ELSE futId[o]]
        /\ ReaderLoopTop(t, pending, fut1, set1)
  /\ wire' = Got(wire, f)
  /\ UNCHANGED <<nws, cfgVars, subVars, loopVars,
                 callLoc, restoreLoc, histVars, nextId, cancelReq, err>>

\* recv returned the array [f, g]: both items are dispatched one after the
\* other with no await in between, then the loop reads again
ReaderRecvBatch(t, f, g) ==
  /\ t \in Readers /\ pc[t] = "rd_recv" /\ ~cancelReq[t]
  /\ tw[t] \in openWs
  /\ \A h \in {f, g} : h.type = "event" => srvSubs[tw[t]][h.id] # 0
  /\ LET hit1 == {o \in Threads : DispatchSettles(f, o)}
         hit2 == {o \in Threads : DispatchSettles(g, o)} \ hit1
         fut1 == [o \in Threads |-> IF o \in hit1 THEN FrameOutcome(f)
                                    ELSE IF o \in hit2 THEN FrameOutcome(g) ELSE fut[o]]
         set1 == [o \in Threads |-> IF o \in hit1 \cup hit2 THEN settles[o] + 1
                                    ELSE settles[o]]
     IN /\ futId' = [o \in Threads |-> IF o \in hit1 THEN f.id
                                        ELSE IF o \in hit2 THEN g.id ELSE futId[o]]
        /\ ReaderLoopTop(t, pending, fut1, set1)
  /\ delivered' = EventDelivery(g, tw[t], EventDelivery(f, tw[t], delivered))
  /\ UNCHANGED <<nws, cfgVars, subscriptions, cache, srvSubs, substate, loopVars,
                 callLoc, restoreLoc, histVars, nextId, wire, cancelReq, err>>

\* json.loads raising out of _recv_json for text that is not JSON
ReadableJsonOnly(m) == m.type # "badjson"

\* _recv_json returns a value for every text: json.JSONDecodeError is caught
Readable(m) == TRUE

\* _recv_json: text that is not JSON becomes the dict {"raw": text}, which
\* has neither type nor id
RecvJson(m) == IF m.type = "badjson" THEN [type |-> "raw", id |-> 0, success |-> FALSE]
               ELSE m

\* recv returned text m that is no result, pong or event: _recv_json, then
\* the loop dispatches what it got (an array item by item) and reads again
ReaderRecvJunk(t, m) ==
  /\ t \in Readers /\ pc[t] = "rd_recv" /\ ~cancelReq[t]
  /\ tw[t] \in openWs
  /\ m \in JunkFrames
  /\ wire' = Seen(wire, m)
  /\ IF Readable(m)
     THEN LET f == RecvJson(m)
              hit == {o \in Threads : DispatchSettles(f, o)}
              fut1 == [o \in Threads |-> IF o \in hit THEN FrameOutcome(f) ELSE fut[o]]
              set1 == [o \in Threads |-> IF o \in hit THEN settles[o] + 1 ELSE settles[o]]
          IN /\ futId' = [o \in Threads |-> IF o \in hit THEN f.id ELSE futId[o]]
             /\ ReaderLoopTop(t, pending, fut1, set1)
             /\ delivered' = IF f.type = "event" THEN EventDelivery(f, tw[t], delivered)
                             ELSE delivered
     ELSE /\ EnterHd(t, pending, fut, settles, pc)
          /\ tw' = [tw EXCEPT ![t] = NoWs]
          /\ UNCHANGED <<futId, delivered>>
  /\ UNCHANGED <<nws, cfgVars, subscriptions, cache, srvSubs, substate, loopVars,
                 callLoc, restoreLoc, histVars, nextId, cancelReq, err>>

\* cb(...) started with asyncio.create_task, not awaited
CallbackDetached == FALSE

\* await cb(...): _dispatch_message is suspended until the callback ends
AwaitsCallback == TRUE

\* a callback that raises ends the receive loop
CallbackEscapes(x) == x # "raised"

\* try: await cb(...) except Exception: whatever the callback raised is
\* caught and logged
CallbackCaught(x) == TRUE

\* the event item with subscription id j of the frame being dispatched by
\* reader t: its callback is called and the reader is suspended in it, or no
\* callback is stored (or there is no item, j = 0) and the loop reads again
DispatchEventItem(t, j, wire0) ==
  IF j # 0 /\ DictHas(subscriptions, j)
  THEN /\ delivered' = <<DictGet(subscriptions, j), srvSubs[tw[t]][j]>>
       /\ wire' = Started(wire0, j)
       /\ arg' = [arg EXCEPT ![t] = <<j, 0>>]
       /\ pc' = [pc EXCEPT ![t] = "rd_cb"]
       /\ UNCHANGED <<ws, openWs, pending, fut, settles, fc, delay, hdRuns, tw>>
  ELSE /\ delivered' = IF j # 0 THEN <<0, srvSubs[tw[t]][j]>> ELSE delivered
       /\ wire' = wire0
       /\ arg' = [arg EXCEPT ![t] = NoArg]
       /\ ReaderLoopTop(t, pending, fut, settles)

\* recv returned the event frame i (j = 0) or the array [event i, event j];
\* a callback is stored under i and is called with the event
ReaderRecvEvents(t, i, j) ==
  /\ t \in Readers /\ pc[t] = "rd_recv" /\ ~cancelReq[t]
  /\ tw[t] \in openWs
  /\ i \in Ids /\ srvSubs[tw[t]][i] # 0 /\ DictHas(subscriptions, i)
  /\ j \in Ids \cup {0}
  /\ j # 0 => srvSubs[tw[t]][j] # 0
  /\ IF AwaitsCallback
     THEN /\ delivered' = <<DictGet(subscriptions, i), srvSubs[tw[t]][i]>>
          /\ wire' = Started(wire, i)
          /\ arg' = [arg EXCEPT ![t] = <<i, j>>]
          /\ pc' = [pc EXCEPT ![t] = "rd_cb"]
          /\ UNCHANGED <<ws, openWs, pending, fut, settles, fc, delay, hdRuns, tw>>
     ELSE DispatchEventItem(t, j, Started(wire, i))
  /\ UNCHANGED <<nws, cfgVars, futId, subscriptions, cache, srvSubs, substate, loopVars,
                 rid, op, restoreLoc, histVars, nextId, cancelReq, err>>

\* the callback the reader is suspended in returned or raised (x); the
\* dispatch goes on with the next item of the array, if any
ReaderCbDone(t, x) ==
  /\ t \in Readers /\ pc[t] = "rd_cb" /\ ~cancelReq[t]
  /\ x \in {"returned", "raised"}
  /\ IF ~CallbackCaught(x)
     THEN /\ EnterHd(t, pending, fut, settles, pc)
          /\ tw' = [tw EXCEPT ![t] = NoWs]
          /\ arg' = [arg EXCEPT ![t] = NoArg]
          /\ wire' = Finished(wire, x)
          /\ UNCHANGED delivered
     ELSE DispatchEventItem(t, arg[t][2], Finished(wire, x))
  /\ UNCHANGED <<nws, cfgVars, futId, subscriptions, cache, srvSubs, substate, loopVars,
                 rid, op, restoreLoc, histVars, nextId, cancelReq, err>>

\* recv raised: the transport is closed
ReaderRecvFail(t) ==
  /\ t \in Readers /\ pc[t] = "rd_recv" /\ ~cancelReq[t]
  /\ tw[t] \notin openWs
  /\ EnterHd(t, pending, fut, settles, pc)
  /\ tw' = [tw EXCEPT ![t] = NoWs]
  /\ UNCHANGED <<nws, cfgVars, futId, subVars, loopVars, callLoc, restoreLoc,
                 histVars, nextId, wire, cancelReq, err>>

\* ---------------------------------------------------------- environment
\* the network or the server closes an open transport
ServerDrop(w) ==
  /\ w \in openWs /\ drops < MaxDrop
  /\ openWs' = openWs \ {w}
  /\ drops' = drops + 1
  /\ UNCHANGED <<ws, nws, cfgVars, tableVars, subVars, loopVars, callLoc, restoreLoc,
                 closeCalls, closeDone, closeSnap, nextId, wire, pc, fc, delay, hdRuns, tw, cancelReq, err>>

\* ------------------------------------------------ correlated calls
\* _send resumed from ws.send: _await_result / _await_special creates the
\* future, stores it under req_id and waits
Register(t) ==
  /\ pending' = [pending EXCEPT ![rid[t]] = t]
  /\ fut' = [fut EXCEPT ![t] = "pending"]
  /\ futId' = [futId EXCEPT ![t] = 0]
  /\ settles' = [settles EXCEPT ![t] = 0]
  /\ pc' = [pc EXCEPT ![t] = "wait"]

\* finally: self._pending.pop(req_id, None)
PopPending(t) == [pending EXCEPT ![rid[t]] = NoThread]

\* _match_sub_restore
MatchSubRestore(entry, subscription_id) == FALSE

ClearCall(t) ==
  /\ rid' = [rid EXCEPT ![t] = 0]
  /\ op' = [op EXCEPT ![t] = "none"]
  /\ arg' = [arg EXCEPT ![t] = NoArg]
  /\ tw' = [tw EXCEPT ![t] = NoWs]

\* asyncio.wait_for gives up: the future is cancelled
Timeout(t) ==
  /\ pc[t] = "wait" /\ fut[t] = "pending"
  /\ fut' = [fut EXCEPT ![t] = "cancelled"]
  /\ settles' = [settles EXCEPT ![t] = settles[t] + 1]
  /\ UNCHANGED <<wsVars, cfgVars, pending, futId, subVars, loopVars, callLoc,
                 restoreLoc, histVars, nextId, wire, pc, fc, delay, hdRuns, tw, cancelReq, err>>

\* a user task calls _send_and_get_result ("req"), a subscribe_* method
\* ("sub") or unsubscribe_events ("unsub"): _send takes the id, _send_raw
\* raises if not connected, else the frame is written and ws.send suspends
UserCall(t, o, a) ==
  /\ t \in Users /\ pc[t] = "idle" /\ nextId <= MaxId
  /\ o \in {"req", "sub", "unsub"}
  /\ o = "req" => a = NoArg
  /\ o = "sub" => /\ a[1] \in Descs /\ a[2] = a[1] /\ substate[a[1]] = "new"
                  /\ \A u \in Users : ~(op[u] = "sub" /\ arg[u][1] = a[1])
  /\ o = "unsub" => /\ DictHas(subscriptions, a[1])
                    /\ a[2] = DictGet(subscriptions, a[1])
  /\ nextId' = nextId + 1
  /\ wire' = Allocated(wire, nextId, nextId)
  /\ IF ~Connected(ws, openWs)
     THEN UNCHANGED <<pc, rid, op, arg, tw, srvSubs>>
     ELSE /\ pc' = [pc EXCEPT ![t] = "send"]
          /\ rid' = [rid EXCEPT ![t] = nextId]
          /\ op' = [op EXCEPT ![t] = o]
          /\ arg' = [arg EXCEPT ![t] = a]
          /\ tw' = [tw EXCEPT ![t] = ws]
          /\ srvSubs' = IF o = "sub" THEN [srvSubs EXCEPT ![ws][nextId] = a[2]]
                        ELSE IF o = "unsub" /\ a[1] \in Ids
                        THEN [srvSubs EXCEPT ![ws][a[1]] = 0]
                        ELSE srvSubs
  /\ UNCHANGED <<wsVars, cfgVars, tableVars, subscriptions, cache, substate, delivered,
                 loopVars, restoreLoc, histVars, fc, delay, hdRuns, cancelReq, err>>

\* ws.send returned (or raised) in a user task
UserSendResume(t) ==
  /\ t \in Users /\ pc[t] = "send"
  /\ IF tw[t] \in openWs
     THEN Register(t) /\ UNCHANGED <<rid, op, arg, tw>>
     ELSE /\ pc' = [pc EXCEPT ![t] = "idle"]
          /\ ClearCall(t)
          /\ UNCHANGED tableVars
  /\ UNCHANGED <<wsVars, cfgVars, subVars, loopVars, restoreLoc, histVars, nextId, wire,
                 fc, delay, hdRuns, cancelReq, err>>

\* every wait ends as a returned payload
CallAlwaysReturns(m) == "value"

\* how _send_and_get_result / _send_and_confirm end, by what the wait gave:
\* a frame with success true is returned, any other frame raises
\* HARequestError, a rejected future raises HAConnectionClosed, a wait that
\* ran out raises TimeoutError
CallOutcome(m) ==
  IF m = "ok" THEN "value"
  ELSE IF m \in {"err", "pong"} THEN "HARequestError"
  ELSE IF m = "closed" THEN "HAConnectionClosed"
  ELSE "TimeoutError"

\* subscribe_* stores the callback whatever way _send_and_confirm ended
SubscribeReturned(t) == op[t] = "sub"

\* subscribe_* goes past `sub_id = await self._send_and_confirm(payload)`
\* to the two statements that store the callback and the descriptor: only
\* when _send_and_confirm returned
SubscribeConfirmed(t) == CallOutcome(fut[t]) = "value" /\ op[t] = "sub"

\* the wait of a user task ended: pop the id, then the rest of
\* _send_and_get_result / subscribe_* / unsubscribe_events
UserWaitResume(t) ==
  /\ t \in Users /\ pc[t] = "wait" /\ fut[t] # "pending"
  /\ pending' = PopPending(t)
  /\ fut' = [fut EXCEPT ![t] = "none"]
  /\ futId' = [futId EXCEPT ![t] = 0]
  /\ settles' = [settles EXCEPT ![t] = 0]
  /\ pc' = [pc EXCEPT ![t] = "idle"]
  /\ ClearCall(t)
  /\ wire' = Returned(wire, t, CallOutcome(fut[t]))
  /\ IF SubscribeConfirmed(t)
     THEN /\ subscriptions' = DictSet(subscriptions, rid[t], arg[t][1])
          /\ cache' = Append(cache, arg[t][2])
          /\ substate' = [substate EXCEPT ![arg[t][2]] = "active"]
          /\ UNCHANGED <<riter, rali>>
     ELSE IF CallOutcome(fut[t]) = "value" /\ op[t] = "unsub"
     THEN /\ subscriptions' = DictPop(subscriptions, arg[t][1])
          /\ cache' = SelectSeq(cache, LAMBDA x : ~MatchSubRestore(x, arg[t][1]))
          /\ riter' = [u \in Threads |-> IF rali[u] THEN cache ELSE riter[u]]
          /\ rali' = [u \in Threads |-> FALSE]
          /\ substate' = IF arg[t][2] \in Descs /\ substate[arg[t][2]] = "active"
                         THEN [substate EXCEPT ![arg[t][2]] = "unsub"]
                         ELSE substate
     ELSE UNCHANGED <<subscriptions, cache, substate, riter, rali>>
  /\ UNCHANGED <<wsVars, cfgVars, srvSubs, delivered, loopVars, rcbs, rold, ridx, rnew, rfail,
                 histVars, nextId, fc, delay, hdRuns, cancelReq, err>>

\* wait_for_flow_progress up to the ws.send of its subscribe_events: the
\* callback on_flow_progress is descriptor k
FlowCall(t, k) ==
  /\ t \in Users /\ pc[t] = "idle" /\ nextId <= MaxId
  /\ k \in Descs /\ substate[k] = "new"
  /\ \A u \in Users : ~(op[u] \in {"sub", "fsub"} /\ arg[u][1] = k)
  /\ nextId' = nextId + 1
  /\ wire' = Allocated(wire, nextId, nextId)
  /\ IF ~Connected(ws, openWs)
     THEN UNCHANGED <<pc, rid, op, arg, tw, srvSubs>>
     ELSE /\ pc' = [pc EXCEPT ![t] = "send"]
          /\ rid' = [rid EXCEPT ![t] = nextId]
          /\ op' = [op EXCEPT ![t] = "fsub"]
          /\ arg' = [arg EXCEPT ![t] = <<k, k>>]
          /\ tw' = [tw EXCEPT ![t] = ws]
          /\ srvSubs' = [srvSubs EXCEPT ![ws][nextId] = k]
  /\ UNCHANGED <<wsVars, cfgVars, tableVars, subscriptions, cache, substate, delivered,
                 loopVars, restoreLoc, histVars, fc, delay, hdRuns, cancelReq, err>>

\* the wait of the subscribe_events of wait_for_flow_progress ended: on
\* success the callback is stored under sub_id and the task waits for
\* flow_id_future; else the exception leaves wait_for_flow_progress
FlowSubResume(t) ==
  /\ t \in Users /\ pc[t] = "wait" /\ op[t] = "fsub" /\ fut[t] # "pending"
  /\ pending' = PopPending(t)
  /\ fut' = [fut EXCEPT ![t] = "none"]
  /\ futId' = [futId EXCEPT ![t] = 0]
  /\ settles' = [settles EXCEPT ![t] = 0]
  /\ wire' = Returned(wire, t, CallOutcome(fut[t]))
  /\ IF CallOutcome(fut[t]) = "value"
     THEN /\ subscriptions' = DictSet(subscriptions, rid[t], arg[t][1])
          /\ cache' = Append(cache, arg[t][2])
          /\ substate' = [substate EXCEPT ![arg[t][2]] = "active"]
          /\ pc' = [pc EXCEPT ![t] = "flow_wait"]
          /\ rid' = [rid EXCEPT ![t] = 0]
          /\ op' = [op EXCEPT ![t] = "flow"]
          /\ arg' = [arg EXCEPT ![t] = <<rid[t], arg[t][1]>>]
          /\ tw' = [tw EXCEPT ![t] = NoWs]
     ELSE /\ pc' = [pc EXCEPT ![t] = "idle"]
          /\ ClearCall(t)
          /\ UNCHANGED <<subscriptions, cache, substate>>
  /\ UNCHANGED <<wsVars, cfgVars, srvSubs, delivered, loopVars, restoreLoc,
                 histVars, nextId, fc, delay, hdRuns, cancelReq, err>>

\* asyncio.wait_for(flow_id_future, timeout) ended, by the result set in
\* on_flow_progress or by the timeout; finally: unsubscribe_events(sub_id)
\* up to its ws.send
FlowWake(t) ==
  /\ t \in Users /\ pc[t] = "flow_wait" /\ nextId <= MaxId
  /\ nextId' = nextId + 1
  /\ wire' = Allocated(wire, nextId, nextId)
  /\ IF ~Connected(ws, openWs)
     THEN /\ pc' = [pc EXCEPT ![t] = "idle"]
          /\ ClearCall(t)
          /\ UNCHANGED srvSubs
     ELSE /\ pc' = [pc EXCEPT ![t] = "send"]
          /\ rid' = [rid EXCEPT ![t] = nextId]
          /\ op' = [op EXCEPT ![t] = "funsub"]
          /\ tw' = [tw EXCEPT ![t] = ws]
          /\ srvSubs' = [srvSubs EXCEPT ![ws][arg[t][1]] = 0]
          /\ UNCHANGED arg
  /\ UNCHANGED <<wsVars, cfgVars, tableVars, subscriptions, cache, substate, delivered,
                 loopVars, restoreLoc, histVars, fc, delay, hdRuns, cancelReq, err>>

\* the wait of the unsubscribe_events in the finally of
\* wait_for_flow_progress ended: on success the callback is removed, else
\* the exception leaves wait_for_flow_progress
FlowUnsubResume(t) ==
  /\ t \in Users /\ pc[t] = "wait" /\ op[t] = "funsub" /\ fut[t] # "pending"
  /\ pending' = PopPending(t)
  /\ fut' = [fut EXCEPT ![t] = "none"]
  /\ futId' = [futId EXCEPT ![t] = 0]
  /\ settles' = [settles EXCEPT ![t] = 0]
  /\ wire' = Returned(wire, t, CallOutcome(fut[t]))
  /\ pc' = [pc EXCEPT ![t] = "idle"]
  /\ ClearCall(t)
  /\ IF CallOutcome(fut[t]) = "value"
     THEN /\ subscriptions' = DictPop(subscriptions, arg[t][1])
          /\ cache' = SelectSeq(cache, LAMBDA x : ~MatchSubRestore(x, arg[t][1]))
          /\ riter' = [u \in Threads |-> IF rali[u] THEN cache ELSE riter[u]]
          /\ rali' = [u \in Threads |-> FALSE]
          /\ substate' = IF substate[arg[t][2]] = "active"
                         THEN [substate EXCEPT ![arg[t][2]] = "unsub"]
                         ELSE substate
     ELSE UNCHANGED <<subscriptions, cache, substate, riter, rali>>
  /\ UNCHANGED <<wsVars, cfgVars, srvSubs, delivered, loopVars, rcbs, rold, ridx, rnew, rfail,
                 histVars, nextId, fc, delay, hdRuns, cancelReq, err>>

\* ws.send returned (or raised) inside a subscribe of _restore_subscriptions
RestoreSendResume(t) ==
  /\ t \notin Users /\ op[t] = "restore" /\ pc[t] = "send" /\ ~cancelReq[t]
  /\ IF tw[t] \in openWs
     THEN /\ Register(t)
          /\ UNCHANGED <<restoreGroup, wire>>
     ELSE /\ RestoreCont(t, ridx[t] + 1, rcbs[t], rold[t], nextId, wire, cache, subscriptions,
                         rnew[t], TRUE, pc, riter, rali)
          /\ UNCHANGED tableVars
  /\ UNCHANGED <<wsVars, cfgVars, substate, delivered, loopVars, histVars, fc, delay, hdRuns, cancelReq, err>>

\* the wait inside a subscribe of _restore_subscriptions ended
RestoreWaitResume(t) ==
  /\ t \notin Users /\ op[t] = "restore" /\ pc[t] = "wait" /\ ~cancelReq[t]
  /\ fut[t] # "pending"
  /\ pending' = PopPending(t)
  /\ fut' = [fut EXCEPT ![t] = "none"]
  /\ futId' = [futId EXCEPT ![t] = 0]
  /\ settles' = [settles EXCEPT ![t] = 0]
  /\ IF fut[t] = "ok"
     THEN RestoreCont(t, ridx[t] + 1, rcbs[t], rold[t], nextId, wire, Append(cache, arg[t][2]),
                      DictSet(subscriptions, rid[t], arg[t][1]),
                      Append(rnew[t], arg[t][2]), rfail[t], pc, riter, rali)
     ELSE RestoreCont(t, ridx[t] + 1, rcbs[t], rold[t], nextId, wire, cache, subscriptions,
                      rnew[t], TRUE, pc, riter, rali)
  /\ UNCHANGED <<wsVars, cfgVars, substate, delivered, loopVars, histVars, fc, delay, hdRuns, cancelReq, err>>

\* ---------------------------------------------------------- _pinger_loop
\* top of the while loop of _pinger_loop up to its sleep
PingerLoopTop(t) ==
  pc' = [pc EXCEPT ![t] = IF closeEvent THEN "done" ELSE "pg_sleep"]

\* the pinger task runs for the first time
PingerStart(t) ==
  /\ t \in Pingers /\ pc[t] = "pg_start" /\ ~cancelReq[t]
  /\ PingerLoopTop(t)
  /\ UNCHANGED <<wsVars, cfgVars, tableVars, subVars, loopVars, callLoc, restoreLoc,
                 histVars, nextId, wire, fc, delay, hdRuns, tw, cancelReq, err>>

\* the sleep is over: ping() takes an id and sends, or raises if the session
\* is not connected, which runs _handle_disconnect
PingerWake(t) ==
  /\ t \in Pingers /\ pc[t] = "pg_sleep" /\ ~cancelReq[t]
  /\ nextId <= MaxId
  /\ nextId' = nextId + 1
  /\ wire' = Allocated(wire, nextId, nextId)
  /\ IF ~Connected(ws, openWs)
     THEN /\ EnterHd(t, pending, fut, settles, pc)
          /\ UNCHANGED <<rid, op, tw>>
     ELSE /\ pc' = [pc EXCEPT ![t] = "send"]
          /\ rid' = [rid EXCEPT ![t] = nextId]
          /\ op' = [op EXCEPT ![t] = "ping"]
          /\ tw' = [tw EXCEPT ![t] = ws]
          /\ UNCHANGED <<ws, openWs, pending, fut, settles, fc, delay, hdRuns>>
  /\ UNCHANGED <<nws, cfgVars, futId, subVars, loopVars, arg, restoreLoc, histVars,
                 cancelReq, err>>

\* ws.send of the ping returned (or raised)
PingSendResume(t) ==
  /\ t \in Pingers /\ op[t] = "ping" /\ pc[t] = "send" /\ ~cancelReq[t]
  /\ IF tw[t] \in openWs
     THEN /\ Register(t)
          /\ UNCHANGED <<ws, openWs, fc, delay, hdRuns, rid, op, arg, tw>>
     ELSE /\ EnterHd(t, pending, fut, settles, pc)
          /\ ClearCall(t)
          /\ UNCHANGED futId
  /\ UNCHANGED <<nws, cfgVars, subVars, loopVars, restoreLoc, histVars, nextId, wire, cancelReq, err>>

\* ping() returned: _await_special got a frame, whatever its type
PingReturned(m) == m \in {"ok", "err", "pong"}

\* the wait of ping() ended: any frame stored in the future is a pong,
\* a timeout or a rejected future runs _handle_disconnect
PingWaitResume(t) ==
  /\ t \in Pingers /\ op[t] = "ping" /\ pc[t] = "wait" /\ ~cancelReq[t]
  /\ fut[t] # "pending"
  /\ futId' = [futId EXCEPT ![t] = 0]
  /\ ClearCall(t)
  /\ LET fut1 == [fut EXCEPT ![t] = "none"]
         set1 == [settles EXCEPT ![t] = 0]
     IN IF PingReturned(fut[t])
        THEN /\ PingerLoopTop(t)
             /\ pending' = PopPending(t) /\ fut' = fut1 /\ settles' = set1
             /\ UNCHANGED <<ws, openWs, fc, delay, hdRuns>>
        ELSE EnterHd(t, PopPending(t), fut1, set1, pc)
  /\ UNCHANGED <<nws, cfgVars, subVars, loopVars, restoreLoc, histVars, nextId, wire, cancelReq, err>>

\* ---------------------------------------------------------------- close
\* the loop of close() with neither the fut.done() test nor the clear()
FailPendingClosedUnguarded(fut0, set0, pend0) ==
  [fut |-> [t \in Threads |-> IF \E i \in Ids : pend0[i] = t
                              THEN "closed" ELSE fut0[t]],
   settles |-> [t \in Threads |-> IF \E i \in Ids : pend0[i] = t
                                  THEN set0[t] + 1 ELSE set0[t]],
   pending |-> pend0]

\* the loop of close() that rejects the pending futures, and the clear()
FailPendingClosed(fut0, set0, pend0) ==
  [fut |-> [t \in Threads |-> IF (\E i \in Ids : pend0[i] = t) /\ fut0[t] = "pending"
                              THEN "closed" ELSE fut0[t]],
   settles |-> [t \in Threads |-> IF (\E i \in Ids : pend0[i] = t) /\ fut0[t] = "pending"
                                  THEN set0[t] + 1 ELSE set0[t]],
   pending |-> EmptyPending]

\* Task.cancel() on the tasks in ts: the future a task awaits is cancelled
\* at once, the CancelledError is delivered when the task next runs
CancelTasks(ts, fut0, set0) ==
  LET live == {x \in ts : x # NoThread /\ ~Done(x)}
      hitf == {x \in live : pc[x] = "wait" /\ fut0[x] = "pending"}
  IN [fut |-> [t \in Threads |-> IF t \in hitf THEN "cancelled" ELSE fut0[t]],
      settles |-> [t \in Threads |-> IF t \in hitf THEN set0[t] + 1 ELSE set0[t]],
      cancelReq |-> [t \in Threads |-> cancelReq[t] \/ t \in live]]

\* close() after its await self._ws.close()
CloseRest(fut0, set0, ar, ce) ==
  LET r == FailPendingClosed(fut0, set0, pending)
  IN /\ ws' = NoWs
     /\ fut' = r.fut /\ settles' = r.settles /\ pending' = r.pending
     /\ pc' = [pc EXCEPT ![Closer] = "idle"]
     /\ closeDone' = closeDone + 1
     /\ closeSnap' = <<NoWs, r.pending, ar, ce, readerTask, pingerTask>>

\* close() up to its await self._ws.close(), or to its end if the
\* transport is absent or already closed
CloseBegin ==
  /\ pc[Closer] = "idle" /\ closeCalls < MaxClose
  /\ closeCalls' = closeCalls + 1
  /\ autoReconnect' = FALSE
  /\ closeEvent' = TRUE
  /\ LET c == CancelTasks({readerTask, pingerTask}, fut, settles)
     IN /\ cancelReq' = c.cancelReq
        /\ IF Connected(ws, openWs)
           THEN /\ openWs' = openWs \ {ws}
                /\ pc' = [pc EXCEPT ![Closer] = "cl_close"]
                /\ fut' = c.fut /\ settles' = c.settles
                /\ UNCHANGED <<ws, pending, closeDone, closeSnap>>
           ELSE /\ CloseRest(c.fut, c.settles, FALSE, TRUE)
                /\ UNCHANGED openWs
  /\ UNCHANGED <<nws, enableCoalesce, onReconnect, reconnectMaxDelay, futId, subVars, loopVars, callLoc,
                 restoreLoc, drops, nextId, wire, fc, delay, hdRuns, tw, err>>

\* await self._ws.close() returned in close()
CloseEnd ==
  /\ pc[Closer] = "cl_close"
  /\ CloseRest(fut, settles, autoReconnect, closeEvent)
  /\ UNCHANGED <<nws, openWs, cfgVars, futId, subVars, loopVars, callLoc, restoreLoc,
                 closeCalls, drops, nextId, wire, fc, delay, hdRuns, tw, cancelReq, err>>

\* ------------------------------------------------------- cancellation
\* CancelledError is thrown into task t at the await it is suspended in:
\* _reader_loop catches it outside its finally and runs _handle_disconnect;
\* everywhere else it unwinds the task (through the finally of _await_result)
CancelResume(t) ==
  /\ cancelReq[t] /\ ~Done(t)
  /\ cancelReq' = [cancelReq EXCEPT ![t] = FALSE]
  /\ futId' = [futId EXCEPT ![t] = 0]
  /\ ClearCall(t)
  /\ rcbs' = [rcbs EXCEPT ![t] = <<>>]
  /\ rold' = [rold EXCEPT ![t] = <<>>]
  /\ ridx' = [ridx EXCEPT ![t] = 0]
  /\ rnew' = [rnew EXCEPT ![t] = <<>>]
  /\ riter' = [riter EXCEPT ![t] = <<>>]
  /\ rali' = [rali EXCEPT ![t] = FALSE]
  /\ IF t \in Readers /\ pc[t] = "rd_recv"
     THEN EnterHd(t, pending, fut, settles, pc)
     ELSE /\ pc' = [pc EXCEPT ![t] = "done"]
          /\ pending' = IF pc[t] = "wait" THEN PopPending(t) ELSE pending
          /\ fut' = [fut EXCEPT ![t] = "none"]
          /\ settles' = [settles EXCEPT ![t] = 0]
          /\ UNCHANGED <<ws, openWs, fc, delay, hdRuns>>
  /\ UNCHANGED <<nws, cfgVars, subVars, loopVars, rfail, histVars, nextId, wire, err>>

\* ------------------------------------------------------ specification
Next ==
  \/ Connect
  \/ \E t \in Threads : DcOpen(t)
  \/ \E t \in Threads : DcOpenFail(t)
  \/ \E t \in Threads : DcSleepDone(t)
  \/ \E t \in Threads : DcRecvFail(t)
  \/ \E t \in Threads, m \in {"auth_required", "list", "other"} : DcHs1(t, m)
  \/ \E t \in Threads : DcAuthSent(t)
  \/ \E t \in Threads, m \in {"auth_ok", "auth_invalid", "other"} : DcHs2(t, m)
  \/ \E t \in Threads : DcFeat(t)
  \/ \E t \in Threads : HdResume(t)
  \/ \E t \in Readers : ReaderStart(t)
  \/ \E t \in Readers, f \in Frames : ReaderRecv(t, f)
  \/ \E t \in Readers : ReaderRecvFail(t)
  \/ \E w \in WsIds : ServerDrop(w)
  \/ \E t \in Threads : Timeout(t)
  \/ \E t \in Users : UserCall(t, "req", NoArg)
  \/ \E t \in Users, k \in Descs : UserCall(t, "sub", <<k, k>>)
  \/ \E t \in Users, i \in Ids, k \in Descs : UserCall(t, "unsub", <<i, k>>)
  \/ \E t \in Users : UserSendResume(t)
  \/ \E t \in Users : UserWaitResume(t)
  \/ \E t \in Threads : RestoreSendResume(t)
  \/ \E t \in Threads : RestoreWaitResume(t)
  \/ \E t \in Pingers : PingerStart(t)
  \/ \E t \in Pingers : PingerWake(t)
  \/ \E t \in Pingers : PingSendResume(t)
  \/ \E t \in Pingers : PingWaitResume(t)
  \/ CloseBegin
  \/ CloseEnd
  \/ \E t \in Threads : CancelResume(t)

Spec == Init /\ [][Next]_vars

TypeOK ==
  /\ wire.on \in BOOLEAN /\ Len(wire.run) <= 2 /\ wire.last \in 0..MaxId /\ wire.used \subseteq Ids /\ Len(wire.hs) <= 4
  /\ \A t \in Threads : rold[t] \in Seq(Descs) /\ Len(rold[t]) <= Cardinality(Descs)
  /\ ws \in 0..MaxWs /\ nws \in 0..MaxWs /\ openWs \subseteq WsIds
  /\ reconnectMaxDelay \in ReconnectMaxDelays
  /\ \A t \in Threads : delay[t] \in 0..40
  /\ pending \in [Ids -> Threads \cup {NoThread}]
  /\ \A t \in Threads : fut[t] \in {"none", "pending", "ok", "err", "pong", "closed", "cancelled"}

\* ---- the happy path of connect and reconnect, shared by the scenarios
Handshake ==
  \/ Connect
  \/ \E t \in Threads : DcOpen(t)
  \/ \E t \in Threads : DcHs1(t, "auth_required")
  \/ \E t \in Threads : DcAuthSent(t)
  \/ \E t \in Threads : DcHs2(t, "auth_ok")
  \/ \E t \in Threads : DcFeat(t)

\* ---- the receive loop, transport loss and disconnect handling
Receive ==
  \/ \E t \in Readers : ReaderStart(t)
  \/ \E t \in Readers : ReaderRecvFail(t)
  \/ \E t \in Threads : HdResume(t)
  \/ \E w \in WsIds : ServerDrop(w)

\* ---- the heartbeat loop
Heartbeat ==
  \/ \E t \in Pingers : PingerStart(t)
  \/ \E t \in Pingers : PingerWake(t)
  \/ \E t \in Pingers : PingSendResume(t)
  \/ \E t \in Pingers : PingWaitResume(t)

User1 == <<"u", 1>>

\* ---- concurrent correlated calls over a session that may drop and reconnect
InitCalls == Init /\ autoReconnect /\ ~wire.on /\ ~onReconnect /\ reconnectMaxDelay = Tick

NextCalls ==
  \/ Handshake
  \/ Receive
  \/ \E t \in Threads : DcRecvFail(t)
  \/ \E t \in Threads : DcSleepDone(t)
  \/ \E t \in Readers, f \in ResultFrames \cup PongFrames : ReaderRecv(t, f)
  \/ \E t \in Threads : Timeout(t)
  \/ \E t \in Users : UserCall(t, "req", NoArg)
  \/ \E t \in Users : UserSendResume(t)
  \/ \E t \in Users : UserWaitResume(t)

SpecCalls == InitCalls /\ [][NextCalls]_vars

\* ---- disconnect handling run by the receive loop and by the heartbeat loop
InitHd == Init /\ ~autoReconnect /\ ~wire.on /\ ~onReconnect /\ reconnectMaxDelay = Tick

NextHd ==
  \/ Handshake
  \/ Receive
  \/ Heartbeat
  \/ \E t \in Readers, f \in OkFrames \cup PongFrames : ReaderRecv(t, f)
  \/ \E t \in Threads : Timeout(t)
  \/ \E t \in Users : UserCall(t, "req", NoArg)
  \/ \E t \in Users : UserSendResume(t)
  \/ \E t \in Users : UserWaitResume(t)

SpecHd == InitHd /\ [][NextHd]_vars

\* ---- subscriptions, unsubscription and their replay after a reconnect
InitSubs == Init /\ autoReconnect /\ enableCoalesce /\ ~wire.on /\ ~onReconnect /\ reconnectMaxDelay = Tick

\* some task is between the loss of a transport and the end of the replay
Connecting ==
  \E t \in Threads :
    \/ pc[t] \in {"dc_connect", "dc_hs1", "dc_auth", "dc_hs2", "dc_feat", "dc_sleep", "dc_hook",
                 "hd_close"}
    \/ op[t] = "restore"

\* a call of a sequential caller: none while a connect or reconnect is under way
CallWhenSettled(o, a) == ~Connecting /\ UserCall(User1, o, a)

\* the transport is lost between two calls of the caller
DropBetweenCalls(w) == pc[User1] = "idle" /\ ServerDrop(w)

NextSubs ==
  \/ Handshake
  \/ \E t \in Readers : ReaderStart(t)
  \/ \E t \in Readers : ReaderRecvFail(t)
  \/ \E t \in Threads : HdResume(t)
  \/ \E w \in WsIds : DropBetweenCalls(w)
  \/ \E t \in Readers, f \in OkFrames \cup EventFrames : ReaderRecv(t, f)
  \/ \E k \in Descs : CallWhenSettled("sub", <<k, k>>)
  \/ \E i \in Ids, k \in Descs : CallWhenSettled("unsub", <<i, k>>)
  \/ UserSendResume(User1)
  \/ UserWaitResume(User1)
  \/ \E t \in Threads : RestoreSendResume(t)
  \/ \E t \in Threads : RestoreWaitResume(t)

SpecSubs == InitSubs /\ [][NextSubs]_vars

\* ---- close() against connect, pending calls and the receive loop
InitClose == Init /\ ~wire.on /\ ~onReconnect /\ reconnectMaxDelay = Tick

NextClose ==
  \/ Handshake
  \/ Receive
  \/ \E t \in Threads : DcOpenFail(t)
  \/ \E t \in Threads : DcRecvFail(t)
  \/ \E t \in Threads : DcSleepDone(t)
  \/ \E t \in Readers, f \in OkFrames : ReaderRecv(t, f)
  \/ \E t \in Users : Timeout(t)
  \/ UserCall(User1, "req", NoArg)
  \/ UserSendResume(User1)
  \/ UserWaitResume(User1)
  \/ CloseBegin
  \/ CloseEnd
  \/ \E t \in Threads : CancelResume(t)

SpecClose == InitClose /\ [][NextClose]_vars

\* ---- close() against reconnects and sleeping heartbeat loops
InitFinal == Init /\ autoReconnect /\ ~wire.on /\ ~onReconnect /\ reconnectMaxDelay = Tick

NextFinal ==
  \/ Handshake
  \/ Receive
  \/ \E t \in Pingers : PingerStart(t)
  \/ \E t \in Threads : DcOpenFail(t)
  \/ \E t \in Threads : DcSleepDone(t)
  \/ \E t \in Readers, f \in OkFrames : ReaderRecv(t, f)
  \/ UserCall(User1, "req", NoArg)
  \/ UserSendResume(User1)
  \/ UserWaitResume(User1)
  \/ CloseBegin
  \/ CloseEnd
  \/ \E t \in Threads : CancelResume(t)

SpecFinal == InitFinal /\ [][NextFinal]_vars

\* ---- close() of a session that holds subscriptions and does not reconnect
InitShut == Init /\ ~autoReconnect /\ ~wire.on /\ ~onReconnect /\ reconnectMaxDelay = Tick

NextShut ==
  \/ Handshake
  \/ Receive
  \/ \E t \in Readers, f \in OkFrames : ReaderRecv(t, f)
  \/ \E k \in Descs : UserCall(User1, "sub", <<k, k>>)
  \/ UserSendResume(User1)
  \/ UserWaitResume(User1)
  \/ CloseBegin
  \/ CloseEnd
  \/ \E t \in Threads : CancelResume(t)

SpecShut == InitShut /\ [][NextShut]_vars

\* ---- the handshake with every answer the server can give
InitAuth == Init /\ wire.on /\ ~onReconnect /\ reconnectMaxDelay = Tick

NextAuth ==
  \/ Handshake
  \/ Receive
  \/ \E t \in Pingers : PingerStart(t)
  \/ \E t \in Threads : DcOpenFail(t)
  \/ \E t \in Threads : DcRecvFail(t)
  \/ \E t \in Threads : DcSleepDone(t)
  \/ \E t \in Threads, m \in {"list", "other"} : DcHs1(t, m)
  \/ \E t \in Threads, m \in {"auth_invalid", "other"} : DcHs2(t, m)

SpecAuth == InitAuth /\ [][NextAuth]_vars

\* ================================================================ claims
Registered(o) == \E i \in Ids : pending[i] = o

C3_ReplayKeepsOwnCallback ==
  [][\A t \in Threads :
       (/\ op[t] = "restore" /\ pc[t] = "wait" /\ pc'[t] = "done"
        /\ ~cancelReq[t] /\ ~rfail'[t] /\ ws' \in openWs')
       => \A k \in Descs :
            (substate'[k] = "active" /\ \E j \in 1..Len(rold[t]) : rold[t][j] = k) =>
            \E i \in Ids : /\ DictHas(subscriptions', i)
                           /\ DictGet(subscriptions', i) = k
                           /\ srvSubs'[ws'][i] = k]_vars

\* C4: no subscribe command is written for the descriptor of a subscription
\* that was removed with unsubscribe_events.
C4_UnsubscribedNotReplayed ==
  [][\A w \in WsIds, i \in Ids :
       (srvSubs'[w][i] # srvSubs[w][i] /\ srvSubs'[w][i] # 0)
       => substate[srvSubs'[w][i]] # "unsub"]_vars

\* C5: once close() has been called no transport is opened and no receive
\* or heartbeat loop is spawned.
C5_CloseIsFinal ==
  [][closeCalls >= 1 =>
       /\ nws' = nws
       /\ readerTask' = readerTask /\ pingerTask' = pingerTask]_vars

\* C6: a close() called when the session fields are as the previous close()
\* left them returns at once and changes neither the socket handle, the
\* correlation table, the flags, the loop handles nor any future; no future
\* is settled a second time.
C6_SecondCloseNoChange ==
  [][(/\ closeCalls' = closeCalls + 1 /\ closeDone >= 1
      /\ <<ws, pending, autoReconnect, closeEvent, readerTask, pingerTask>> = closeSnap)
     => /\ closeDone' = closeDone + 1
        /\ UNCHANGED <<ws, openWs, pending, autoReconnect, closeEvent, readerTask,
                       pingerTask, fut, settles, nextId, subscriptions, cache>>]_vars

\* close() returned twice and a request rejected by close() is still held
\* by its caller
C6_Witness ==
  /\ closeDone >= 2
  /\ <<ws, pending, autoReconnect, closeEvent, readerTask, pingerTask>> = closeSnap
  /\ \E u \in Users : fut[u] = "closed" /\ settles[u] = 1

\* C7: when close() returns, every request that was pending is rejected, the
\* table is empty and no receive or heartbeat loop is left running without a
\* cancellation.
C7_CloseStopsEverything ==
  [][closeDone' = closeDone + 1 =>
       /\ pending' = EmptyPending
       /\ \A o \in Threads : (Registered(o) /\ fut[o] = "pending") => fut'[o] = "closed"
       /\ \A t \in Readers \cup Pingers :
            (pc'[t] \in {"rd_recv", "pg_sleep"} \/ (op'[t] = "ping" /\ pc'[t] \in {"send", "wait"}))
            => cancelReq'[t]]_vars

\* C8: when close() returns, the subscription registry and the replay log
\* are empty.
C8_CloseClearsRegistry ==
  [][closeDone' = closeDone + 1 => (subscriptions' = <<>> /\ cache' = <<>>)]_vars

\* C9: a connect attempt answered with auth_invalid ends with the error
\* raised; it is not put to sleep for another attempt.
C9_AuthInvalidNotRetried ==
  \A t \in Threads : err[t] = "auth_invalid" => pc[t] = "raised"

\* C10: a handshake failure of the explicit first connect() is raised to
\* the caller of connect().
C10_FirstConnectFailureRaised ==
  \A t \in Threads : (fc[t] /\ err[t] \in {"handshake", "auth_invalid"}) => pc[t] = "raised"

\* a loop task that was created and has not ended
Running(t) == pc[t] \notin {"unborn", "done", "raised", "cancelled"}

\* C11: a first connect whose server opens with auth_required and answers
\* auth_ok writes exactly one auth frame, which carries no id and takes none
\* from the counter, and returns with the transport open and exactly one
\* receive loop and one heartbeat loop running.
C11_HandshakeThenReady ==
  [][\A t \in Threads :
       /\ (pc[t] = "dc_hs1" /\ pc'[t] = "dc_auth")
          => (nextId' = nextId /\ AuthFrame[2] = 0 /\ pending' = pending)
       /\ (/\ fc[t] /\ pc[t] \in {"dc_hs2", "dc_feat"} /\ pc'[t] = "done"
           /\ wire'.hs[1] = <<"auth_required", 0>>)
          => /\ Cardinality({i \in 1..Len(wire'.hs) : wire'.hs[i] = AuthFrame}) = 1
             /\ wire'.hs[2] = AuthFrame /\ wire'.hs[3] = <<"auth_ok", 0>>
             /\ Connected(ws', openWs')
             /\ {r \in Readers : Running(r)'} = {readerTask'}
             /\ {q \in Pingers : Running(q)'} = {pingerTask'}]_vars

\* connect() has returned after auth_required and auth_ok, both loops exist
C11_Witness ==
  /\ pc[Main] = "done" /\ fc[Main]
  /\ Len(wire.hs) >= 3 /\ wire.hs[1] = <<"auth_required", 0>> /\ wire.hs[2] = AuthFrame
  /\ wire.hs[3] = <<"auth_ok", 0>>
  /\ readerTask # NoThread /\ Running(readerTask)
  /\ pingerTask # NoThread /\ Running(pingerTask)

\* C12: the auth frame is written only in answer to a first message of
\* type auth_required; after any other first message, a JSON array
\* included, no auth frame is written.
C12_AuthOnlyAfterAuthRequired ==
  \A i \in 1..Len(wire.hs) :
    wire.hs[i] = AuthFrame => (i > 1 /\ wire.hs[i - 1] = <<"auth_required", 0>>)

\* ---- correlated calls on one connection with every outcome observed
InitOut == Init /\ ~autoReconnect /\ wire.on /\ ~onReconnect /\ reconnectMaxDelay = Tick

NextOut ==
  \/ Handshake
  \/ Receive
  \/ \E t \in Readers, f \in ResultFrames : ReaderRecv(t, f)
  \/ \E t \in Users : Timeout(t)
  \/ \E t \in Users : UserCall(t, "req", NoArg)
  \/ \E t \in Users : UserSendResume(t)
  \/ \E t \in Users : UserWaitResume(t)

SpecOut == InitOut /\ [][NextOut]_vars

\* C13: a correlated call whose future was settled by the result frame that
\* carries its id returns the payload when the frame has success true and
\* raises HARequestError when it has success false.
C13_ResultDecidesOutcome ==
  [][\A t \in Users :
       (pc[t] = "wait" /\ pc'[t] = "idle" /\ futId[t] = rid[t])
       => /\ fut[t] = "ok" => wire'.ret = <<t, "value">>
          /\ fut[t] = "err" => wire'.ret = <<t, "HARequestError">>]_vars

\* one call has returned its payload while another caller holds an error
\* result of its own id
C13_Witness ==
  \E t \in Users, u \in Users :
    /\ wire.ret = <<t, "value">>
    /\ pc[u] = "wait" /\ fut[u] = "err" /\ futId[u] = rid[u]

\* ---- calls made after connect() has returned, against later reconnects
InitRace == Init /\ autoReconnect /\ wire.on /\ ~onReconnect /\ reconnectMaxDelay = Tick

\* an API call of a caller that waited for connect() to return
CallAfterConnect(t) == pc[Main] = "done" /\ UserCall(t, "req", NoArg)

NextRace ==
  \/ Handshake
  \/ Receive
  \/ \E t \in Threads : DcRecvFail(t)
  \/ \E t \in Threads : DcSleepDone(t)
  \/ \E t \in Readers, f \in ResultFrames : ReaderRecv(t, f)
  \/ \E t \in Users : Timeout(t)
  \/ \E t \in Users : CallAfterConnect(t)
  \/ \E t \in Users : UserSendResume(t)
  \/ \E t \in Users : UserWaitResume(t)

SpecRace == InitRace /\ [][NextRace]_vars

\* task t passes from taking an id in _send to the write of its frame
SendStep(t) == pc'[t] = "send" /\ (pc[t] # "send" \/ rid'[t] # rid[t])

\* C14: a call that ends because its result frame has success false or
\* because its wait ran out leaves every other registration of the
\* correlation table, the subscription registry, the replay log and the
\* transport as they were, and runs no disconnect handling.
C14_FailureIsRequestScoped ==
  [][\A t \in Users :
       (pc[t] = "wait" /\ pc'[t] = "idle" /\ fut[t] \in {"err", "cancelled"})
       => /\ \A i \in Ids : pending[i] # t => pending'[i] = pending[i]
          /\ UNCHANGED <<subscriptions, cache, ws, openWs, hdRuns>>]_vars

\* C15: on one connection every id _send takes is greater than every id it
\* took before on that connection, however the senders interleave.
C15_IdsIncreaseOnConnection ==
  [][\A t \in Threads : SendStep(t) => rid'[t] > wire.last]_vars

\* C16: over the whole session no id other than the pinned id 1 is given to
\* two commands, and no future is stored in the correlation table under an
\* id whose earlier registration is still there.
C16_IdsNeverReused ==
  [][/\ \A t \in Threads : (SendStep(t) /\ rid'[t] # 1) => rid'[t] \notin wire.used
     /\ \A i \in Ids : (pending'[i] # pending[i] /\ pending'[i] # NoThread)
                         => pending[i] = NoThread]_vars

\* C17: with feature negotiation enabled the supported_features frame, id 1,
\* is written after auth_ok and before _send has written any frame on the
\* connection, and the next id _send takes is 2; with negotiation disabled
\* no such frame is written and the handshake leaves the counter alone.
C17_FeaturesFirst ==
  [][\A t \in Threads :
       /\ (pc[t] = "dc_hs2" /\ pc'[t] = "dc_feat")
          => /\ enableCoalesce /\ wire.last = 0
             /\ wire'.hs[Len(wire'.hs)] = <<"feat", 1>>
             /\ wire'.hs[Len(wire'.hs) - 1] = <<"auth_ok", 0>>
       /\ (pc[t] = "dc_feat" /\ pc'[t] = "done") => nextId' = 2
       /\ (pc[t] = "dc_hs2" /\ pc'[t] = "done")
          => /\ ~enableCoalesce /\ nextId' = nextId
             /\ \A i \in 1..Len(wire'.hs) : wire'.hs[i] # <<"feat", 1>>]_vars

\* ---- the heartbeat against a server that stops answering: the only
\* losses are the ones the session itself brings about
InitBeat == Init /\ ~wire.on /\ ~onReconnect /\ reconnectMaxDelay = Tick

NextBeat ==
  \/ Handshake
  \/ \E t \in Readers : ReaderStart(t)
  \/ \E t \in Readers : ReaderRecvFail(t)
  \/ \E t \in Threads : HdResume(t)
  \/ Heartbeat
  \/ \E t \in Threads : DcRecvFail(t)
  \/ \E t \in Threads : DcSleepDone(t)
  \/ \E t \in Readers, f \in PongFrames : ReaderRecv(t, f)
  \/ \E t \in Threads : Timeout(t)
  \/ UserCall(User1, "req", NoArg)
  \/ UserSendResume(User1)
  \/ UserWaitResume(User1)

SpecBeat == InitBeat /\ [][NextBeat]_vars

\* C18: when the wait of a heartbeat ping runs out, the heartbeat loop runs
\* disconnect handling: the transport is closed, every pending request is
\* rejected with HAConnectionClosed, and with auto-reconnect (and no close)
\* the loop goes on into a reconnect.
C18_PingTimeoutDisconnects ==
  [][\A t \in Pingers :
       /\ (/\ op[t] = "ping" /\ pc[t] = "wait" /\ fut[t] = "cancelled" /\ pc'[t] # "wait")
          => IF ws # NoWs
             THEN pc'[t] = "hd_close" /\ ws \notin openWs'
             ELSE hdRuns' = hdRuns + 1
       /\ (hdRuns' = hdRuns + 1 /\ pc'[t] # pc[t])
          => /\ ws' = NoWs /\ pending' = EmptyPending
             /\ \A o \in Threads : (Registered(o) /\ fut[o] = "pending") => fut'[o] = "closed"
             /\ (autoReconnect /\ ~closeEvent) => pc'[t] = "dc_connect"]_vars

\* task t is inside _do_connect
InDoConnect(t) ==
  \/ pc[t] \in {"dc_connect", "dc_hs1", "dc_auth", "dc_hs2", "dc_feat", "dc_sleep", "dc_hook"}
  \/ op[t] = "restore"

\* C19: the failure of the heartbeat and the exit of the receive loop that
\* follow one loss lead to one recovery: at no time are two tasks inside
\* _do_connect.
C19_SingleRecovery ==
  Cardinality({t \in Threads : InDoConnect(t)}) <= 1

\* ---- subscriptions and their events on one connection, the server sending
\* single frames and arrays of a result followed by an event
InitEv == Init /\ ~autoReconnect /\ ~wire.on /\ ~onReconnect /\ reconnectMaxDelay = Tick

NextEv ==
  \/ Handshake
  \/ \E t \in Readers : ReaderStart(t)
  \/ \E t \in Readers, f \in OkFrames \cup EventFrames : ReaderRecv(t, f)
  \/ \E t \in Readers, f \in OkFrames, g \in EventFrames : ReaderRecvBatch(t, f, g)
  \/ \E k \in Descs : UserCall(User1, "sub", <<k, k>>)
  \/ UserSendResume(User1)
  \/ UserWaitResume(User1)

SpecEv == InitEv /\ [][NextEv]_vars

\* the result frame with success true for the subscribe command of
\* descriptor k has been dispatched
SubConfirmed(k) ==
  \/ substate[k] = "active"
  \/ \E u \in Users : op[u] = "sub" /\ arg[u][2] = k /\ fut[u] = "ok" /\ futId[u] = rid[u]

\* C20: an event of a subscription that is dispatched after the result
\* frame confirming the subscription, be it in the same array, is handed to
\* the callback registered for that subscription.
C20_EventAfterResultDelivered ==
  [][\A k \in Descs :
       (delivered' # delivered /\ delivered'[2] = k /\ SubConfirmed(k)')
       => delivered'[1] = k]_vars

\* ---- events handed to callbacks that take their time and may raise
InitCb == Init /\ ~autoReconnect /\ wire.on /\ ~onReconnect /\ reconnectMaxDelay = Tick

NextCb ==
  \/ Handshake
  \/ \E t \in Readers : ReaderStart(t)
  \/ \E t \in Readers, f \in OkFrames : ReaderRecv(t, f)
  \/ \E t \in Readers, i \in Ids, j \in Ids \cup {0} : ReaderRecvEvents(t, i, j)
  \/ \E t \in Readers, x \in {"returned", "raised"} : ReaderCbDone(t, x)
  \/ \E k \in Descs : UserCall(User1, "sub", <<k, k>>)
  \/ UserSendResume(User1)
  \/ UserWaitResume(User1)

SpecCb == InitCb /\ [][NextCb]_vars

\* reader t resumes from the callback it was suspended in
CbStep(t) == pc[t] = "rd_cb" /\ (pc'[t] # "rd_cb" \/ arg'[t] # arg[t])

\* C21: when a subscription callback raises, the exception is caught: the
\* receive loop goes on with the next item or the next read on the open
\* transport, no disconnect handling starts and the registry keeps the
\* subscription.
C21_CallbackErrorIsolated ==
  [][\A t \in Readers :
       (CbStep(t) /\ wire'.cb = "raised")
       => /\ pc'[t] \in {"rd_cb", "rd_recv"}
          /\ Connected(ws', openWs') /\ tw'[t] = ws'
          /\ hdRuns' = hdRuns /\ \A u \in Threads : pc'[u] # "hd_close"
          /\ subscriptions' = subscriptions
          /\ DictHas(subscriptions', arg[t][1])]_vars

\* a callback has raised and the receive loop, still reading, has since
\* called the callback of a later event
C21_Witness ==
  \E t \in Readers :
    /\ wire.cb = "raised" /\ pc[t] = "rd_cb" /\ wire.run = <<arg[t][1]>>
    /\ hdRuns = 0 /\ Len(subscriptions) = 2

InitJunk == Init /\ ~autoReconnect /\ wire.on /\ ~onReconnect /\ reconnectMaxDelay = Tick

NextJunk ==
  \/ Handshake
  \/ \E t \in Readers : ReaderStart(t)
  \/ \E t \in Readers, f \in OkFrames : ReaderRecv(t, f)
  \/ \E t \in Readers, m \in JunkFrames : ReaderRecvJunk(t, m)
  \/ UserCall(User1, "req", NoArg)
  \/ \E k \in Descs : UserCall(User1, "sub", <<k, k>>)
  \/ UserSendResume(User1)
  \/ UserWaitResume(User1)

SpecJunk == InitJunk /\ [][NextJunk]_vars

\* C22: reading text that is not JSON, not an object, of a handshake type
\* or of an unknown type changes nothing: the receive loop reads again on the
\* same transport, no disconnect handling starts, and the correlation
\* table, the futures and the subscription registry stay as they were.
C22_JunkIgnored ==
  [][wire'.seen # wire.seen =>
       /\ UNCHANGED <<pc, tw, ws, openWs, hdRuns>>
       /\ UNCHANGED <<pending, fut, settles, subscriptions, cache, delivered>>]_vars

\* a frame of an unknown type that carries the id of a pending request has
\* been read; the request is still pending and the loop is reading
C22_Witness ==
  \E t \in Readers, u \in Users :
    /\ pc[t] = "rd_recv" /\ tw[t] = ws /\ ws \in openWs /\ hdRuns = 0
    /\ rid[u] \in Ids /\ wire.seen = <<"unknown", rid[u]>>
    /\ pending[rid[u]] = u /\ fut[u] = "pending"

\* ---- replies that come late, twice or under an id nobody waits for
InitLate == Init /\ ~autoReconnect /\ wire.on /\ ~onReconnect /\ reconnectMaxDelay = Tick

NextLate ==
  \/ Handshake
  \/ \E t \in Readers : ReaderStart(t)
  \/ \E t \in Readers, f \in OkFrames : ReaderRecv(t, f)
  \/ \E t \in Readers, f \in ResultFrames \cup PongFrames : ReaderRecvLate(t, f)
  \/ Timeout(User1)
  \/ UserCall(User1, "req", NoArg)
  \/ \E t \in Users : UserSendResume(t)
  \/ \E t \in Users : UserWaitResume(t)

SpecLate == InitLate /\ [][NextLate]_vars

\* C23: a result or pong frame under whose id no pending future is stored
\* (unknown id, second reply, reply after the caller's wait ran out) changes
\* nothing and raises nothing: table and futures stay as they were, the
\* loop reads again, and no future is ever settled twice.
C23_LateFrameDropped ==
  /\ [](\A o \in Threads : settles[o] <= 1)
  /\ [][wire'.got # wire.got =>
          /\ UNCHANGED <<pending, fut, futId, settles, subscriptions, delivered>>
          /\ UNCHANGED <<pc, tw, ws, openWs, hdRuns>>]_vars

\* the reply to a request has been read after the caller's wait ran out
\* and before the caller removed its entry; the future is as the timeout
\* left it
C23_Witness ==
  \E t \in Readers, u \in Users :
    /\ pc[t] = "rd_recv" /\ hdRuns = 0
    /\ pc[u] = "wait" /\ rid[u] \in Ids /\ pending[rid[u]] = u
    /\ fut[u] = "cancelled" /\ settles[u] = 1
    /\ wire.got = <<"result", rid[u]>>

\* ---- wait_for_flow_progress on one connection: the server answers, or
\* does not answer, the two commands and may send events
InitFlow == Init /\ ~autoReconnect /\ ~wire.on /\ ~onReconnect /\ reconnectMaxDelay = Tick

NextFlow ==
  \/ Handshake
  \/ \E t \in Readers : ReaderStart(t)
  \/ \E t \in Readers, f \in ResultFrames \cup EventFrames : ReaderRecv(t, f)
  \/ Timeout(User1)
  \/ \E k \in Descs : FlowCall(User1, k)
  \/ UserSendResume(User1)
  \/ FlowSubResume(User1)
  \/ FlowWake(User1)
  \/ FlowUnsubResume(User1)

SpecFlow == InitFlow /\ [][NextFlow]_vars

\* C24: when wait_for_flow_progress returns or raises after it created its
\* subscription, its callback is no longer stored in _subscriptions.
C24_FlowLeavesNoCallback ==
  [][\A t \in Users :
       (op[t] \in {"flow", "funsub"} /\ pc'[t] = "idle")
         => ~DictHas(subscriptions', arg[t][1])]_vars

\* ---- a session with auto-reconnect whose transport is lost and whose
\* reconnect attempts may be refused: the network loses or refuses a
\* transport only while another one can still be opened, and the heartbeat
\* sleeps throughout
InitLive == Init /\ autoReconnect /\ ~wire.on /\ ~onReconnect /\ reconnectMaxDelay = Tick

DropWithSpare(w) == nws < MaxWs /\ ServerDrop(w)

RefuseWithSpare(t) == nws < MaxWs /\ DcHs1(t, "other")

NextLive ==
  \/ Handshake
  \/ \E t \in Readers : ReaderStart(t)
  \/ \E t \in Readers : ReaderRecvFail(t)
  \/ \E t \in Threads : HdResume(t)
  \/ \E w \in WsIds : DropWithSpare(w)
  \/ \E t \in Threads : RefuseWithSpare(t)
  \/ \E t \in Threads : DcOpenFail(t)
  \/ \E t \in Threads : DcSleepDone(t)
  \/ \E t \in Threads : DcRecvFail(t)
  \/ \E t \in Readers, f \in OkFrames : ReaderRecv(t, f)
  \/ UserCall(User1, "req", NoArg)
  \/ UserSendResume(User1)
  \/ UserWaitResume(User1)

\* every task of the client that can run does run; a server that
\* eventually accepts: an attempt to open a transport that is made again
\* and again eventually succeeds, and the handshake on an open transport is
\* answered
FairLive ==
  /\ \A t \in Threads : WF_vars(ReaderStart(t))
  /\ \A t \in Threads : WF_vars(ReaderRecvFail(t))
  /\ \A t \in Threads : WF_vars(HdResume(t))
  /\ \A t \in Threads : WF_vars(DcSleepDone(t))
  /\ \A t \in Threads : WF_vars(DcRecvFail(t))
  /\ \A t \in Threads : WF_vars(DcAuthSent(t))
  /\ \A t \in Threads : WF_vars(DcFeat(t))
  /\ \A t \in Threads : SF_vars(DcOpen(t))
  /\ \A t \in Threads : WF_vars(DcHs1(t, "auth_required"))
  /\ \A t \in Threads : WF_vars(DcHs2(t, "auth_ok"))

SpecLive == InitLive /\ [][NextLive]_vars /\ FairLive

\* connect or a reconnect has completed on a transport that is open
SessionReady ==
  /\ Connected(ws, openWs)
  /\ \A t \in Threads : ~InDoConnect(t) /\ pc[t] # "hd_close"

\* disconnect handling is reconnecting
Reconnecting == hdRuns >= 1 /\ \E t \in Threads : InDoConnect(t)

\* C25: with auto-reconnect and no close, disconnect handling that has
\* started to reconnect is followed by a session that is ready again,
\* provided the server eventually accepts; a task leaves the retry loop of
\* _do_connect only when its attempt has succeeded.
C25_RetryUntilReady ==
  /\ Reconnecting ~> SessionReady
  /\ [][\A t \in Threads :
          (InDoConnect(t) /\ ~InDoConnect(t)') => pc'[t] = "done" /\ err'[t] = "none"]_vars

\* the transport was lost, and disconnect handling run by the receive loop
\* has made the session ready on a new transport
C25_Witness ==
  /\ hdRuns >= 1 /\ nws >= 2 /\ SessionReady
  /\ \E t \in Readers : pc[t] = "done" /\ ws \notin {0, 1}

\* ---- connect against a server that opens the transport and may stay
\* silent: nothing obliges the server to send auth_required or to answer
\* the auth frame, every step of the client itself is taken
InitSilent == Init /\ ~autoReconnect /\ ~wire.on /\ ~onReconnect /\ reconnectMaxDelay = Tick

NextSilent ==
  \/ Handshake
  \/ \E t \in Readers : ReaderStart(t)
  \/ \E t \in Readers, f \in OkFrames : ReaderRecv(t, f)
  \/ \E t \in Users : UserCall(t, "req", NoArg)
  \/ \E t \in Users : UserSendResume(t)
  \/ \E t \in Users : UserWaitResume(t)

FairSilent ==
  /\ WF_vars(Connect)
  /\ \A t \in Threads : WF_vars(DcOpen(t))
  /\ \A t \in Threads : WF_vars(DcAuthSent(t))
  /\ \A t \in Threads : WF_vars(DcFeat(t))
  /\ \A t \in Threads : WF_vars(ReaderStart(t))
  /\ \A t \in Users : WF_vars(UserSendResume(t))
  /\ \A t \in Users : WF_vars(UserWaitResume(t))

SpecSilent == InitSilent /\ [][NextSilent]_vars /\ FairSilent

\* C26: a connect attempt that waits for auth_required or for the answer
\* to the auth frame stops waiting, whatever the server does.
C26_HandshakeWaitEnds ==
  \A t \in Threads : (pc[t] \in {"dc_hs1", "dc_hs2"}) ~> (pc[t] \notin {"dc_hs1", "dc_hs2"})

\* C27: the reply to a frame that has been written finds the future of
\* its caller in the correlation table: no result frame is dropped while
\* the task that wrote the command with its id has yet to store the future.
C27_ReplyFindsFuture ==
  [][\A u \in Users :
       (wire'.got # wire.got /\ rid[u] \in Ids /\ wire'.got = <<"result", rid[u]>>)
         => pc[u] # "send"]_vars

\* C28: the frames of the commands reach a transport in the order of their
\* ids: the id of a frame being written is greater than the id of every
\* frame written on that connection before it, the frames of the tasks still
\* suspended in their write included.
C28_FramesInIdOrder ==
  [][\A t \in Threads :
       SendStep(t) =>
         /\ \A o \in Threads \ {t} :
              (pc[o] = "send" /\ tw[o] = tw'[t]) => rid[o] < rid'[t]
         /\ wire.last < rid'[t]]_vars

\* C30: the replay log and the subscription registry correspond position
\* by position: as many descriptors as callbacks, and the i-th descriptor
\* is the one whose subscribe call stored the i-th callback.
C30_CacheMatchesRegistry ==
  /\ Len(cache) = Len(subscriptions)
  /\ \A i \in 1..Len(cache) : cache[i] = DictValues(subscriptions)[i]

\* ---- the loops of a session with auto-reconnect whose transport is lost
\* while the heartbeat sleeps
InitLoops == Init /\ autoReconnect /\ ~wire.on /\ ~onReconnect /\ reconnectMaxDelay = Tick

NextLoops ==
  \/ Handshake
  \/ Receive
  \/ \E t \in Pingers : PingerStart(t)
  \/ \E t \in Readers, f \in OkFrames : ReaderRecv(t, f)
  \/ UserCall(User1, "req", NoArg)
  \/ UserSendResume(User1)
  \/ UserWaitResume(User1)

SpecLoops == InitLoops /\ [][NextLoops]_vars

\* task t is inside the while loop of _reader_loop
LiveReader(t) == t \in Readers /\ pc[t] \in {"rd_start", "rd_recv", "rd_cb"}

\* task t is inside the while loop of _pinger_loop
LivePinger(t) ==
  /\ t \in Pingers
  /\ pc[t] \in {"pg_start", "pg_sleep"} \/ (op[t] = "ping" /\ pc[t] \in {"send", "wait"})

\* C31: at every moment at most one receive loop and at most one heartbeat
\* loop of the session are running.
C31_OneLoopEach ==
  /\ Cardinality({t \in Readers : LiveReader(t)}) <= 1
  /\ Cardinality({t \in Pingers : LivePinger(t)}) <= 1

\* ---- a session with an on_reconnect hook: subscriptions made by a
\* sequential caller, transport losses while no connect or reconnect is
\* under way, the hook returning or raising
InitHook == Init /\ autoReconnect /\ enableCoalesce /\ onReconnect /\ wire.on /\ reconnectMaxDelay = Tick

\* the transport is lost while the session is ready
DropWhenSettled(w) == ~Connecting /\ ServerDrop(w)

NextHook ==
  \/ Handshake
  \/ \E t \in Readers : ReaderStart(t)
  \/ \E t \in Readers : ReaderRecvFail(t)
  \/ \E t \in Threads : HdResume(t)
  \/ \E w \in WsIds : DropWhenSettled(w)
  \/ \E t \in Threads : DcSleepDone(t)
  \/ \E t \in Threads, x \in {"returned", "raised"} : HookDone(t, x)
  \/ \E t \in Readers, f \in OkFrames : ReaderRecv(t, f)
  \/ \E k \in Descs : CallWhenSettled("sub", <<k, k>>)
  \/ UserSendResume(User1)
  \/ UserWaitResume(User1)
  \/ \E t \in Threads : RestoreSendResume(t)
  \/ \E t \in Threads : RestoreWaitResume(t)

SpecHook == InitHook /\ [][NextHook]_vars

\* C32: the on_reconnect hook is not called by the first connect; a
\* reconnect calls it after it has spawned the receive loop and the
\* heartbeat loop and before it replays a subscription, and an attempt that
\* ends in success has called it exactly once.
C32_HookOncePerReconnect ==
  [][\A t \in Threads :
       /\ (pc'[t] = "dc_hook" /\ pc[t] # "dc_hook")
            => /\ ~fc[t] /\ pc[t] \in {"dc_hs2", "dc_feat"}
               /\ pc'[readerTask'] = "rd_start" /\ pc'[pingerTask'] = "pg_start"
               /\ pc[readerTask'] = "unborn" /\ pc[pingerTask'] = "unborn"
               /\ op[t] # "restore"
       /\ (op'[t] = "restore" /\ op[t] # "restore") => pc[t] = "dc_hook"
       /\ (InDoConnect(t) /\ pc'[t] = "done")
            => wire'.hook = IF fc[t] THEN 0 ELSE 1]_vars

\* a reconnect has called the hook, the hook has returned and the replay of
\* a subscription is under way
C32_Witness ==
  \E t \in Readers :
    /\ ~fc[t] /\ op[t] = "restore" /\ pc[t] = "wait"
    /\ wire.hook = 1 /\ hdRuns = 1

\* C33: with auto-reconnect disabled, a receive loop that ends runs
\* disconnect handling; once disconnect handling has run the session has
\* no transport, no connection attempt is made, every future that was
\* pending has been rejected with HAConnectionClosed and the table is
\* empty, and a call that sends then raises in _send_raw: no frame is
\* written and nothing is stored in the table.
C33_StaysDisconnected ==
  /\ [](hdRuns >= 1 =>
          /\ ws = NoWs /\ pending = EmptyPending
          /\ \A t \in Threads : ~InDoConnect(t) /\ fut[t] # "pending")
  /\ [][/\ \A t \in Readers :
             (LiveReader(t) /\ ~LiveReader(t)') => (pc'[t] = "hd_close" \/ hdRuns' = hdRuns + 1)
        /\ (hdRuns' > hdRuns) =>
             (\A t \in Threads : (fut[t] = "pending" /\ pc[t] = "wait") => fut'[t] = "closed")
        /\ (hdRuns >= 1) =>
             (/\ nws' = nws /\ pending' = pending
              /\ \A t \in Threads : ~SendStep(t))]_vars

\* ---- subscribe and unsubscribe calls of two tasks on one connection, the
\* server confirming, refusing or not answering
InitUnsub == Init /\ ~autoReconnect /\ enableCoalesce /\ ~onReconnect /\ wire.on /\ reconnectMaxDelay = Tick

NextUnsub ==
  \/ Handshake
  \/ \E t \in Readers : ReaderStart(t)
  \/ \E t \in Readers, f \in ResultFrames \cup EventFrames : ReaderRecv(t, f)
  \/ Timeout(User1)
  \/ UserCall(User1, "sub", <<1, 1>>)
  \/ \E i \in Ids : UserCall(User1, "unsub", <<i, 1>>)
  \/ UserSendResume(User1)
  \/ UserWaitResume(User1)

SpecUnsub == InitUnsub /\ [][NextUnsub]_vars

\* C34: the command of unsubscribe_events carries an id other than the
\* subscription id it cancels; the callback leaves _subscriptions only in
\* the step in which unsubscribe_events resumes from a result frame with
\* success true, and an unsubscribe that ends otherwise leaves
\* _subscriptions as it was.
C34_UnsubscribeOnConfirm ==
  [][\A t \in Users :
       /\ (SendStep(t) /\ op'[t] = "unsub") => rid'[t] # arg'[t][1]
       /\ (op[t] = "unsub" /\ pc[t] = "wait" /\ pc'[t] = "idle")
            => IF fut[t] = "ok"
               THEN ~DictHas(subscriptions', arg[t][1])
               ELSE subscriptions' = subscriptions
       /\ (\E i \in Ids : DictHas(subscriptions, i) /\ ~DictHas(subscriptions', i))
            => \E u \in Users : op[u] = "unsub" /\ pc[u] = "wait" /\ fut[u] = "ok"
                                  /\ pc'[u] = "idle"]_vars

\* ---- the heartbeat and one caller against a server that answers with
\* result and pong frames of any id
InitPong == Init /\ ~autoReconnect /\ enableCoalesce /\ ~onReconnect /\ ~wire.on /\ reconnectMaxDelay = Tick

NextPong ==
  \/ Handshake
  \/ \E t \in Readers : ReaderStart(t)
  \/ \E t \in Threads : HdResume(t)
  \/ Heartbeat
  \/ \E t \in Readers, f \in ResultFrames \cup PongFrames : ReaderRecv(t, f)
  \/ \E t \in Threads : Timeout(t)
  \/ UserCall(User1, "req", NoArg)
  \/ UserSendResume(User1)
  \/ UserWaitResume(User1)

SpecPong == InitPong /\ [][NextPong]_vars

\* C35: ping() returns without raising only when its future was settled by
\* a frame of type pong, a frame of another type under the id of the ping
\* does not end it, and the future of a request that is not a ping is never
\* settled by a pong frame.
C35_OnlyPongEndsPing ==
  [][/\ \A t \in Pingers :
          (op[t] = "ping" /\ pc[t] = "wait" /\ pc'[t] # "wait" /\ PingReturned(fut[t]))
            => fut[t] = "pong"
     /\ \A t \in Pingers :
          (op[t] = "ping" /\ pc[t] = "wait" /\ fut[t] = "pending")
            => fut'[t] \notin {"ok", "err"}
     /\ \A t \in Users :
          (op[t] = "req" /\ pc[t] = "wait" /\ fut[t] = "pending")
            => fut'[t] # "pong"]_vars

\* C36: an entry of the correlation table belongs to a task that waits
\* under that id; when a correlated call returns or raises, its id is
\* absent from the table afterwards and every entry of another task is
\* left in place.
C36_EntryWhileWaiting ==
  [][\A t \in Users :
       /\ \A i \in Ids : pending'[i] = t => (pc'[t] = "wait" /\ rid'[t] = i)
       /\ (pc[t] = "wait" /\ pc'[t] = "idle")
            => /\ pending'[rid[t]] = NoThread
               /\ \A i \in Ids :
                    (pending[i] # NoThread /\ pending[i] # t) => pending'[i] = pending[i]]_vars

\* ---- subscribe calls that may fail: the server refuses, stays silent or
\* drops the transport
InitFail == Init /\ ~autoReconnect /\ enableCoalesce /\ ~onReconnect /\ wire.on /\ reconnectMaxDelay = Tick

NextFail ==
  \/ Handshake
  \/ Receive
  \/ \E t \in Readers, f \in ResultFrames : ReaderRecv(t, f)
  \/ Timeout(User1)
  \/ \E k \in Descs : UserCall(User1, "sub", <<k, k>>)
  \/ UserSendResume(User1)
  \/ UserWaitResume(User1)

SpecFail == InitFail /\ [][NextFail]_vars

\* C37: a subscribe call that ends by raising (the send fails, the result
\* has success false, the wait runs out or the future is rejected on a lost
\* connection) changes neither the subscription registry nor the replay
\* log, and an entry is added to either only by a subscribe call that ends
\* on a result with success true.
C37_FailedSubscribeStoresNothing ==
  [][/\ \A t \in Users :
          (/\ op[t] = "sub" /\ pc[t] \in {"send", "wait"} /\ pc'[t] = "idle"
           /\ (pc[t] = "send" \/ fut[t] # "ok"))
            => (subscriptions' = subscriptions /\ cache' = cache)
     /\ (subscriptions' # subscriptions \/ cache' # cache)
            => \E t \in Users : op[t] = "sub" /\ pc[t] = "wait" /\ fut[t] = "ok"
                                /\ pc'[t] = "idle"]_vars

\* a subscribe call has raised HARequestError and nothing is registered
C37_Witness ==
  /\ wire.ret \in Users \X {"HARequestError"}
  /\ subscriptions = <<>> /\ cache = <<>>
  /\ \A k \in Descs : substate[k] = "new"

\* ---- a callback that awaits a request of its own on the same session
InitNest == Init /\ autoReconnect /\ enableCoalesce /\ ~onReconnect /\ wire.on /\ reconnectMaxDelay = Tick

\* some receive loop is suspended in a subscription callback
InCallback == \E r \in Readers : pc[r] = "rd_cb"

\* the caller subscribes from outside: the session is connected and no
\* callback is running
SubscribeOutside(k) == pc[Main] = "done" /\ ~InCallback /\ UserCall(User1, "sub", <<k, k>>)

\* the running callback calls the API and awaits the result: the call is
\* the caller's while a receive loop is suspended in the callback
CallInCallback == InCallback /\ UserCall(User1, "req", NoArg)

\* the callback ends once the request it awaits has ended
CbDoneAfterCall(t, x) == pc[User1] = "idle" /\ ReaderCbDone(t, x)

\* the server answers the commands it was sent after the handshake
ReaderRecvReply(t, f) == f.id \in {2, 3} /\ ReaderRecv(t, f)

\* the sleep of the heartbeat loop ends: every task created before it
\* began has long started
WakeAfterStart(t) == (\A r \in Readers : pc[r] # "rd_start") /\ PingerWake(t)

NextNest ==
  \/ Handshake
  \/ \E t \in Readers : ReaderStart(t)
  \/ \E t \in Readers : ReaderRecvFail(t)
  \/ \E t \in Threads : HdResume(t)
  \/ \E t \in Pingers : PingerStart(t)
  \/ \E t \in Pingers : WakeAfterStart(t)
  \/ \E t \in Pingers : PingSendResume(t)
  \/ \E t \in Pingers : PingWaitResume(t)
  \/ \E t \in Pingers : Timeout(t)
  \/ Timeout(User1)
  \/ \E t \in Readers, f \in OkFrames : ReaderRecvReply(t, f)
  \/ \E t \in Readers, i \in Ids : ReaderRecvEvents(t, i, 0)
  \/ \E t \in Readers : CbDoneAfterCall(t, "returned")
  \/ SubscribeOutside(1)
  \/ CallInCallback
  \/ UserSendResume(User1)
  \/ UserWaitResume(User1)
  \/ \E t \in Threads : RestoreSendResume(t)
  \/ \E t \in Threads : RestoreWaitResume(t)

SpecNest == InitNest /\ [][NextNest]_vars

\* C38: while a receive loop is suspended in a subscription callback no
\* frame is dispatched: no pending future is settled by a frame and no other
\* callback is called, so a request awaited by the callback ends only when
\* its wait runs out or its future is rejected.
C38_NoDispatchInCallback ==
  [][InCallback
       => /\ \A t \in Threads :
               fut[t] = "pending" => fut'[t] \notin {"ok", "err", "pong"}
          /\ \A r \in Readers : ~(pc[r] = "rd_recv" /\ pc'[r] = "rd_cb")]_vars

\* ---- connect and reconnect runs against a server that refuses, drops and
\* fails the handshake, for every configured maximum delay
InitBackoff == Init /\ autoReconnect /\ ~wire.on /\ ~onReconnect

NextBackoff ==
  \/ Handshake
  \/ Receive
  \/ \E t \in Threads : DcOpenFail(t)
  \/ \E t \in Threads : DcRecvFail(t)
  \/ \E t \in Threads : DcSleepDone(t)

SpecBackoff == InitBackoff /\ [][NextBackoff]_vars

\* C39: in a run of _do_connect the delay is 1 second when the run begins
\* and changes only after a sleep; after a sleep it is the delay slept
\* times 1.5 or the configured maximum and is not smaller than the delay
\* slept; no delay slept is longer than the configured maximum.
C39_BackoffCapped ==
  [][\A t \in Threads :
       /\ (~InDoConnect(t) /\ pc'[t] = "dc_connect") => delay'[t] = Tick
       /\ (InDoConnect(t) /\ pc[t] # "dc_sleep") => delay'[t] = delay[t]
       /\ (pc[t] = "dc_sleep" /\ pc'[t] = "dc_connect")
            => /\ delay'[t] >= delay[t]
               /\ delay'[t] \in {Backoff(delay[t]), reconnectMaxDelay}
       /\ (pc[t] # "dc_sleep" /\ pc'[t] = "dc_sleep") => delay[t] <= reconnectMaxDelay]_vars

====
